---- MODULE Spec2Model ----
(***************************************************************************)
(* Stock ledger, transfer, sale, cash-cut and incident workflows of the    *)
(* StoreManage backend (app/services, app/api/v1), as a state machine over *)
(* the document store.  Every await on the store is one step, so requests  *)
(* served concurrently interleave between their reads and their writes.    *)
(* Decimal quantities and amounts are integers (arbitrary precision, no    *)
(* overflow).  A document's save() replaces the stored document by the      *)
(* request's in-memory copy.                                               *)
(* The services name some documents differently from app/models (CashCut  *)
(* for CorteCaja, Incident for Incidencia); the model follows the handlers *)
(* and the fields they read and write.                                     *)
(***************************************************************************)
EXTENDS Integers, Sequences, FiniteSets, TLC

\* ---------------------------------------------------------------- bounds
\* Largest quantity a request or a seeded balance carries.
MaxQty == 2
\* Transfers created after the initial state.
MaxTransfers == 1
\* Requests received after the initial state.
MaxRequests == 4
\* Direct update_stock calls made after the initial state.
MaxCalls == 2
\* Largest amount of money a request or a stored document carries.
MaxAmount == 2
\* Cash cuts opened after the initial state.
MaxCuts == 2
\* Incidents created after the initial state.
MaxIncidents == 2
\* Sales stored after the initial state.
MaxSales == 2
\* Sale requests received after the initial state.
MaxSaleRequests == 3

\* ---------------------------------------------------------------- world
Warehouses == {"w1", "w2"}
Products == {"p1", "p2"}
\* Requests in service at the same time.
Procs == {"r1", "r2"}
Pairs == Warehouses \X Products

\* Optional[...]: None, or a value.
None == << >>
Some(v) == <<v>>

VARIABLES
    inventory,      \* Inventory collection: pair -> None | Some(document)
    movements,      \* InventoryMovement collection, in insertion order
    transfers,      \* Transfer collection; a transfer's id is its index
    transits,       \* GoodsInTransit collection
    req,            \* per request slot: the running handler's locals, or idle + last response
    out,            \* the response the last step sent, if it sent one
    served,         \* requests received so far
    snap,           \* history: per transfer, the available balances when it was inserted
    dirty,          \* history: transfers whose pairs another operation wrote since
    raced,          \* history: transfers that two requests handled at the same time
    cash_cuts,      \* CashCut collection; a cut's id is its index
    cash_movements, \* CashMovement collection
    expenses,       \* OperationalExpense collection
    sales,          \* Sale collection
    incidents,      \* Incident collection; an incident's id is its index
    closings,       \* history: per cash cut, the close_cash_cut calls answered so far
    sold            \* history: per sale, the balances and the request count when its create_sale began

\* The collections outside the stock ledger.
officeVars == <<cash_cuts, cash_movements, expenses, sales, incidents, closings, sold>>

\* The collections and history of the stock ledger and the transfers.
stockVars == <<inventory, movements, transfers, transits, snap, dirty, raced>>

vars == <<inventory, movements, transfers, transits, req, out, served, snap, dirty, raced,
          cash_cuts, cash_movements, expenses, sales, incidents, closings, sold>>

\* ---------------------------------------------------------------- documents
NewInventory(initial_quantity) ==
    [available_quantity |-> initial_quantity,
     reserved_quantity |-> 0,
     outbound_transit_quantity |-> 0,
     inbound_transit_quantity |-> 0]

InventoryMovement(w, p, movement_type, quantity, previous_quantity, new_quantity, reference_id, reference_type) ==
    [warehouse_id |-> w,
     product_id |-> p,
     movement_type |-> movement_type,
     quantity |-> quantity,
     previous_quantity |-> previous_quantity,
     new_quantity |-> new_quantity,
     reference_id |-> reference_id,
     reference_type |-> reference_type]

TransferDetail(product_id, requested_quantity) ==
    [product_id |-> product_id,
     requested_quantity |-> requested_quantity,
     sent_quantity |-> None,
     received_quantity |-> None,
     transit_quantity |-> 0,
     discrepancy |-> None]

\* Inventory.total_quantity
total_quantity(doc) ==
    doc.available_quantity + doc.reserved_quantity
        + doc.outbound_transit_quantity + doc.inbound_transit_quantity

\* available_quantity of a pair, 0 when it has no document (a lazily created
\* document starts at 0).
Available(k) ==
    IF inventory[k] = None THEN 0 ELSE inventory[k][1].available_quantity

\* ---------------------------------------------------------------- request slots
NoCall == [fn |-> "none"]

\* A handler that ended, with its response.
Idle(last) == [op |-> "idle", last |-> last]

NoRequest == [op |-> "idle"]

NoResponse == [op |-> "none", result |-> "none", id |-> 0]

Response(op, result, id) == [op |-> op, result |-> result, id |-> id]

Busy(p) == req[p].op # "idle"

\* Request slots are interchangeable: a request takes r2 only while r1 is taken.
Free(p) ==
    /\ ~Busy(p)
    /\ p = "r2" => Busy("r1")

\* The slot's locals after a step, and the response when the handler ended.
Settle(p, r) ==
    /\ req' = [req EXCEPT ![p] = IF r.op = "idle" THEN NoRequest ELSE r]
    /\ out' = IF r.op = "idle" THEN r.last ELSE NoResponse
    /\ served' = served

\* The first step of a request: it is counted.
Start(p, r) ==
    /\ served < MaxRequests
    /\ req' = [req EXCEPT ![p] = IF r.op = "idle" THEN NoRequest ELSE r]
    /\ out' = IF r.op = "idle" THEN r.last ELSE NoResponse
    /\ served' = served + 1

\* The requests of one kind in service.
InService(op) == Cardinality({q \in Procs : req[q].op = op})

InCall(p, fn, pc) ==
    /\ Busy(p)
    /\ req[p].call.fn = fn
    /\ req[p].call.pc = pc

At(p, op, pc) ==
    /\ req[p].op = op
    /\ req[p].call.fn = "none"
    /\ req[p].pc = pc

\* ---------------------------------------------------------------- stock ledger
MovementTypes == {"inbound", "outbound", "adjustment", "transfer_outbound", "transfer_inbound"}

\* A variant policy that clamps an outbound movement at zero instead of raising.
NewQuantityClamped(previous_quantity, quantity, movement_type) ==
    IF movement_type \in {"inbound", "transfer_inbound"}
    THEN [raise |-> "none", value |-> previous_quantity + quantity]
    ELSE IF movement_type \in {"outbound", "transfer_outbound"}
    THEN IF previous_quantity - quantity < 0
         THEN [raise |-> "none", value |-> 0]
         ELSE [raise |-> "none", value |-> previous_quantity - quantity]
    ELSE IF movement_type = "adjustment"
    THEN [raise |-> "none", value |-> quantity]
    ELSE [raise |-> "InvalidMovementType", value |-> previous_quantity]

\* A variant policy that adds an adjustment's quantity to the balance.
NewQuantityAdjustDelta(previous_quantity, quantity, movement_type) ==
    IF movement_type \in {"inbound", "transfer_inbound", "adjustment"}
    THEN [raise |-> "none", value |-> previous_quantity + quantity]
    ELSE IF movement_type \in {"outbound", "transfer_outbound"}
    THEN IF previous_quantity - quantity < 0
         THEN [raise |-> "InsufficientStock", value |-> previous_quantity]
         ELSE [raise |-> "none", value |-> previous_quantity - quantity]
    ELSE [raise |-> "InvalidMovementType", value |-> previous_quantity]

\* update_stock, "Calculate new quantity based on movement type": the new
\* available quantity, or the error raised instead.
NewQuantity(previous_quantity, quantity, movement_type) ==
    IF movement_type \in {"inbound", "transfer_inbound"}
    THEN [raise |-> "none", value |-> previous_quantity + quantity]
    ELSE IF movement_type \in {"outbound", "transfer_outbound"}
    THEN IF previous_quantity - quantity < 0
         THEN [raise |-> "InsufficientStock", value |-> previous_quantity]
         ELSE [raise |-> "none", value |-> previous_quantity - quantity]
    ELSE IF movement_type = "adjustment"
    THEN [raise |-> "none", value |-> quantity]
    ELSE [raise |-> "InvalidMovementType", value |-> previous_quantity]

\* check_availability: a read of the pair's document.
check_availability(k, quantity) ==
    /\ inventory[k] # None
    /\ inventory[k][1].available_quantity >= quantity

\* The frame of a running update_stock call.
UpdateStockCall(w, p, quantity, movement_type, reference_id, reference_type) ==
    [fn |-> "update_stock",
     pc |-> "get",
     warehouse_id |-> w,
     product_id |-> p,
     quantity |-> quantity,
     movement_type |-> movement_type,
     reference_id |-> reference_id,
     reference_type |-> reference_type,
     inventory |-> NewInventory(0),
     previous_quantity |-> 0,
     new_quantity |-> 0]

\* ---------------------------------------------------------------- transfers
TransferOps ==
    {"approve_transfer", "reject_transfer", "dispatch_transfer",
     "receive_transfer", "cancel_transfer"}

TransferRef(t) == <<"transfers", t>>

\* receive_transfer's search for the detail of a received line: the first
\* detail with that product, 0 when there is none.
FindDetail(details, product_id) ==
    IF \E i \in 1..Len(details) : details[i].product_id = product_id
    THEN CHOOSE i \in 1..Len(details) :
            /\ details[i].product_id = product_id
            /\ \A h \in 1..(i - 1) : details[h].product_id # product_id
    ELSE 0

\* The first received line at or after j that has a detail (the others are
\* skipped by `continue`), 0 when there is none.
NextReceived(details, received_details, j) ==
    IF \E h \in j..Len(received_details) : FindDetail(details, received_details[h].product_id) # 0
    THEN CHOOSE h \in j..Len(received_details) :
            /\ FindDetail(details, received_details[h].product_id) # 0
            /\ \A g \in j..(h - 1) : FindDetail(details, received_details[g].product_id) = 0
    ELSE 0

\* cancel_transfer restores a line only when it has a positive sent_quantity.
Restorable(detail) ==
    /\ detail.sent_quantity # None
    /\ detail.sent_quantity[1] > 0

\* The first detail at or after i that cancel_transfer restores, 0 when none.
NextRestorable(details, i) ==
    IF \E h \in i..Len(details) : Restorable(details[h])
    THEN CHOOSE h \in i..Len(details) :
            /\ Restorable(details[h])
            /\ \A g \in i..(h - 1) : ~Restorable(details[g])
    ELSE 0

\* A variant dispatch that debits the requested quantity plus one.
DispatchCallOneMore(transfer, t, i) ==
    UpdateStockCall(transfer.source_warehouse_id, transfer.details[i].product_id,
                    transfer.details[i].requested_quantity + 1, "transfer_outbound",
                    Some(TransferRef(t)), Some("transfer"))

DispatchCall(transfer, t, i) ==
    UpdateStockCall(transfer.source_warehouse_id, transfer.details[i].product_id,
                    transfer.details[i].requested_quantity, "transfer_outbound",
                    Some(TransferRef(t)), Some("transfer"))

ReceiveCall(transfer, t, received_detail) ==
    UpdateStockCall(transfer.destination_warehouse_id, received_detail.product_id,
                    received_detail.received_quantity, "transfer_inbound",
                    Some(TransferRef(t)), Some("transfer"))

\* A variant restoration that credits the requested quantity plus one.
CancelCallOneMore(transfer, t, i) ==
    UpdateStockCall(transfer.source_warehouse_id, transfer.details[i].product_id,
                    transfer.details[i].requested_quantity + 1, "inbound",
                    Some(TransferRef(t)), Some("cancelled_transfer"))

CancelCall(transfer, t, i) ==
    UpdateStockCall(transfer.source_warehouse_id, transfer.details[i].product_id,
                    transfer.details[i].sent_quantity[1], "inbound",
                    Some(TransferRef(t)), Some("cancelled_transfer"))

\* dispatch_transfer, "Update detail", after the line's update_stock returned.
Dispatched(detail) ==
    [detail EXCEPT !.sent_quantity = Some(detail.requested_quantity),
                   !.transit_quantity = detail.requested_quantity]

\* A variant that records the discrepancy as sent minus received.
ReceivedSentMinusReceived(detail, received_quantity) ==
    [detail EXCEPT !.received_quantity = Some(received_quantity),
                   !.transit_quantity = 0,
                   !.discrepancy =
                        IF Some(received_quantity) # detail.sent_quantity
                        THEN Some(detail.sent_quantity[1] - received_quantity)
                        ELSE @]

\* receive_transfer, "Update detail" and "Calculate discrepancy".
Received(detail, received_quantity) ==
    [detail EXCEPT !.received_quantity = Some(received_quantity),
                   !.transit_quantity = 0,
                   !.discrepancy =
                        IF Some(received_quantity) # detail.sent_quantity
                        THEN Some(received_quantity - detail.sent_quantity[1])
                        ELSE @]

\* What the handler does when its update_stock call returns: up to its next
\* await, or to its response.
AfterDispatchLine(r) ==
    LET tr == [r.transfer EXCEPT !.details[r.i] = Dispatched(@)]
    IN  IF r.i < Len(tr.details)
        THEN [r EXCEPT !.transfer = tr, !.i = r.i + 1, !.call = DispatchCall(tr, r.id, r.i + 1)]
        ELSE [r EXCEPT !.transfer = tr, !.call = NoCall, !.pc = "save"]

AfterReceiveLine(r) ==
    LET rd == r.received_details[r.j]
        i == FindDetail(r.transfer.details, rd.product_id)
        tr == [r.transfer EXCEPT !.details[i] = Received(@, rd.received_quantity)]
        n == NextReceived(tr.details, r.received_details, r.j + 1)
    IN  IF n # 0
        THEN [r EXCEPT !.transfer = tr, !.j = n, !.call = ReceiveCall(tr, r.id, r.received_details[n])]
        ELSE [r EXCEPT !.transfer = tr, !.call = NoCall, !.pc = "save"]

AfterCancelLine(r) ==
    LET n == NextRestorable(r.transfer.details, r.i + 1)
    IN  IF n # 0
        THEN [r EXCEPT !.i = n, !.call = CancelCall(r.transfer, r.id, n)]
        ELSE [r EXCEPT !.call = NoCall, !.pc = "save"]

\* ---------------------------------------------------------------- sales: ledger calls
SaleRef(s) == <<"sales", s>>

\* A variant of cancel_sale that posts the line as an adjustment.
RestoreCallAdjustment(sale, s, i) ==
    UpdateStockCall(sale.warehouse_id, sale.details[i].product_id, sale.details[i].quantity,
                    "adjustment", Some(SaleRef(s)), Some("cancelled_sale"))

\* cancel_sale's update_stock call for line i of the sale it read.
RestoreCall(sale, s, i) ==
    UpdateStockCall(sale.warehouse_id, sale.details[i].product_id, sale.details[i].quantity,
                    "inbound", Some(SaleRef(s)), Some("cancelled_sale"))

\* cancel_sale after the update_stock call of line i returned: the next line,
\* or the status change.
AfterCancelSaleLine(r) ==
    IF r.i < Len(r.sale.details)
    THEN [r EXCEPT !.i = r.i + 1, !.call = RestoreCall(r.sale, r.id, r.i + 1)]
    ELSE [r EXCEPT !.call = NoCall, !.pc = "save"]

\* The request's locals after its ledger call returned (raise = "none") or
\* raised: the handlers of this section let the error reach the client.
Resume(r, raise) ==
    IF raise # "none" THEN Idle(Response(r.op, raise, r.id))
    ELSE IF r.op = "dispatch_transfer" THEN AfterDispatchLine(r)
    ELSE IF r.op = "receive_transfer" THEN AfterReceiveLine(r)
    ELSE IF r.op = "cancel_transfer" THEN AfterCancelLine(r)
    ELSE IF r.op = "cancel_sale" THEN AfterCancelSaleLine(r)
    ELSE Idle(Response(r.op, "ok", r.id))

\* ---------------------------------------------------------------- history
AffectedPairs(t) ==
    {<<transfers[t].source_warehouse_id, transfers[t].details[i].product_id>> :
        i \in 1..Len(transfers[t].details)}
    \cup
    {<<transfers[t].destination_warehouse_id, transfers[t].details[i].product_id>> :
        i \in 1..Len(transfers[t].details)}

OnTransfer(r, t) ==
    /\ r.op \in TransferOps
    /\ r.id = t

\* raced after request slot p starts on transfer t, its guard having answered g:
\* the transfer joins when another request is at work on it.
Raced(p, t, g) ==
    IF g = "none" /\ \E q \in Procs \ {p} : OnTransfer(req[q], t)
    THEN raced \cup {t}
    ELSE raced

\* dirty after request slot p writes the balance of pair k.
Touched(p, k) ==
    dirty \cup {t \in 1..Len(transfers) : k \in AffectedPairs(t) /\ ~OnTransfer(req[p], t)}

\* ---------------------------------------------------------------- update_stock steps
\* A variant that takes previous_quantity from the document after the new
\* quantity was assigned to it.
PostedPreviousAfter(call, doc) ==
    LET n == NewQuantity(doc.available_quantity, call.quantity, call.movement_type)
    IN  [raise |-> n.raise,
         call |-> [call EXCEPT !.pc = "save",
                               !.inventory = [doc EXCEPT !.available_quantity = n.value],
                               !.previous_quantity = n.value,
                               !.new_quantity = n.value]]

\* A variant that keeps the quantity of a transfer_outbound movement on the
\* document, as outbound transit.
PostedCountingTransit(call, doc) ==
    LET n == NewQuantity(doc.available_quantity, call.quantity, call.movement_type)
    IN  [raise |-> n.raise,
         call |-> [call EXCEPT !.pc = "save",
                               !.inventory =
                                    [doc EXCEPT !.available_quantity = n.value,
                                                !.outbound_transit_quantity =
                                                    IF call.movement_type = "transfer_outbound"
                                                    THEN @ + call.quantity ELSE @],
                               !.previous_quantity = doc.available_quantity,
                               !.new_quantity = n.value]]

\* create_or_update_inventory: Inventory.find_one; with the document at hand,
\* update_stock computes the new quantity and raises or goes on to save.
Posted(call, doc) ==
    LET n == NewQuantity(doc.available_quantity, call.quantity, call.movement_type)
    IN  [raise |-> n.raise,
         call |-> [call EXCEPT !.pc = "save",
                               !.inventory = [doc EXCEPT !.available_quantity = n.value],
                               !.previous_quantity = doc.available_quantity,
                               !.new_quantity = n.value]]

UpdateStockGet(p) ==
    /\ InCall(p, "update_stock", "get")
    /\ LET c == req[p].call
           k == <<c.warehouse_id, c.product_id>>
       IN  IF inventory[k] = None
           THEN Settle(p, [req[p] EXCEPT !.call.pc = "create"])
           ELSE LET po == Posted(c, inventory[k][1])
                IN  IF po.raise # "none"
                    THEN Settle(p, Resume(req[p], po.raise))
                    ELSE Settle(p, [req[p] EXCEPT !.call = po.call])
    /\ UNCHANGED <<inventory, movements, transfers, transits, snap, dirty, raced, officeVars>>

\* create_or_update_inventory: Inventory.insert of a zero balance (the pair is
\* unique: a second insert raises DuplicateKeyError), then update_stock goes on.
UpdateStockCreate(p) ==
    /\ InCall(p, "update_stock", "create")
    /\ LET c == req[p].call
           k == <<c.warehouse_id, c.product_id>>
       IN  IF inventory[k] # None
           THEN /\ Settle(p, Resume(req[p], "DuplicateKey"))
                /\ UNCHANGED <<inventory, dirty, raced, officeVars>>
           ELSE LET po == Posted(c, NewInventory(0))
                IN  /\ inventory' = [inventory EXCEPT ![k] = Some(NewInventory(0))]
                    /\ dirty' = Touched(p, k)
                    /\ IF po.raise # "none"
                       THEN Settle(p, Resume(req[p], po.raise))
                       ELSE Settle(p, [req[p] EXCEPT !.call = po.call])
    /\ UNCHANGED <<movements, transfers, transits, snap, raced, officeVars>>

\* inventory.save()
UpdateStockSave(p) ==
    /\ InCall(p, "update_stock", "save")
    /\ LET c == req[p].call
           k == <<c.warehouse_id, c.product_id>>
       IN  /\ inventory' = [inventory EXCEPT ![k] = Some(c.inventory)]
           /\ dirty' = Touched(p, k)
    /\ Settle(p, [req[p] EXCEPT !.call.pc = "insert"])
    /\ UNCHANGED <<movements, transfers, transits, snap, raced, officeVars>>

\* movement.insert(), and the return to the caller
UpdateStockInsert(p) ==
    /\ InCall(p, "update_stock", "insert")
    /\ LET c == req[p].call
       IN  movements' = Append(movements,
                InventoryMovement(c.warehouse_id, c.product_id, c.movement_type, c.quantity,
                                  c.previous_quantity, c.new_quantity,
                                  c.reference_id, c.reference_type))
    /\ Settle(p, Resume(req[p], "none"))
    /\ UNCHANGED <<inventory, transfers, transits, snap, dirty, raced, officeVars>>

\* ---------------------------------------------------------------- inputs
\* Requests the clients send (TransferCreate: requested_quantity > 0, at
\* least one detail; ReceiveTransfer: received_details is a list of untyped
\* dicts, so a received quantity may be zero or negative).
DetailInputs ==
    {<<[product_id |-> "p1", requested_quantity |-> q]>> : q \in 1..MaxQty}
    \cup {<<[product_id |-> "p1", requested_quantity |-> 1],
            [product_id |-> "p2", requested_quantity |-> 1]>>}

RouteInputs == {<<"w1", "w2">>, <<"w1", "w1">>}

ReceivedLine(product_id, received_quantity) ==
    [product_id |-> product_id, received_quantity |-> received_quantity]

ReceivedInputs ==
    {<< >>, <<ReceivedLine("p2", 1)>>,
     <<ReceivedLine("p1", 1), ReceivedLine("p2", 1)>>,
     <<ReceivedLine("p1", 1), ReceivedLine("p1", 1)>>}
    \cup {<<ReceivedLine("p1", q)>> : q \in (-1)..MaxQty}

TransferIds == 1..MaxTransfers

\* The pairs whose balance the adjustments of the model set.
AdjustInputs == {<<"w1", "p1">>}

\* ---------------------------------------------------------------- create_transfer
\* Warehouse.get of both ends (all warehouses of the model exist and are
\* active), the same-warehouse check, then the first detail's stock check.
CreateTransferChecked(r) ==
    IF ~check_availability(<<r.data.source_warehouse_id, r.data.details[r.i].product_id>>,
                           r.data.details[r.i].requested_quantity)
    THEN Idle(Response(r.op, "InsufficientStock", 0))
    ELSE IF r.i < Len(r.data.details)
    THEN [r EXCEPT !.i = r.i + 1]
    ELSE [r EXCEPT !.pc = "insert"]

CreateTransfer(p, route, details) ==
    /\ Free(p)
    /\ Len(transfers) + InService("create_transfer") < MaxTransfers
    /\ LET r == [op |-> "create_transfer", id |-> 0, pc |-> "check", call |-> NoCall,
                 data |-> [source_warehouse_id |-> route[1],
                           destination_warehouse_id |-> route[2],
                           details |-> details],
                 i |-> 1]
       IN  IF route[1] = route[2]
           THEN Start(p, Idle(Response(r.op, "SameWarehouse", 0)))
           ELSE Start(p, CreateTransferChecked(r))
    /\ UNCHANGED <<inventory, movements, transfers, transits, snap, dirty, raced, officeVars>>

\* A variant of the stock check that reserves the quantity it finds.
CreateTransferCheckReserving(p) ==
    /\ At(p, "create_transfer", "check")
    /\ Settle(p, CreateTransferChecked(req[p]))
    /\ LET line == req[p].data.details[req[p].i]
           k == <<req[p].data.source_warehouse_id, line.product_id>>
       IN  inventory' =
                IF check_availability(k, line.requested_quantity)
                THEN [inventory EXCEPT ![k] =
                        Some([inventory[k][1] EXCEPT
                                !.available_quantity = @ - line.requested_quantity,
                                !.reserved_quantity = @ + line.requested_quantity])]
                ELSE inventory
    /\ UNCHANGED <<movements, transfers, transits, snap, dirty, raced, officeVars>>

\* the stock check of the next detail
CreateTransferCheck(p) ==
    /\ At(p, "create_transfer", "check")
    /\ Settle(p, CreateTransferChecked(req[p]))
    /\ UNCHANGED <<inventory, movements, transfers, transits, snap, dirty, raced, officeVars>>

\* transfer.insert()
CreateTransferInsert(p) ==
    /\ At(p, "create_transfer", "insert")
    /\ LET d == req[p].data
       IN  transfers' = Append(transfers,
                [source_warehouse_id |-> d.source_warehouse_id,
                 destination_warehouse_id |-> d.destination_warehouse_id,
                 status |-> "pending",
                 details |-> [i \in 1..Len(d.details) |->
                                TransferDetail(d.details[i].product_id,
                                               d.details[i].requested_quantity)]])
    /\ snap' = Append(snap, [k \in Pairs |-> Available(k)])
    /\ Settle(p, Idle(Response("create_transfer", "ok", Len(transfers) + 1)))
    /\ UNCHANGED <<inventory, movements, transits, dirty, raced, officeVars>>

\* ---------------------------------------------------------------- Transfer.get
\* Every transfer handler starts with Transfer.get and its status check:
\* the error it answers with, "none" when it goes on.
TransferGuard(t, allowed) ==
    IF t > Len(transfers) THEN "NotFound"
    ELSE IF transfers[t].status \notin allowed THEN "InvalidState"
    ELSE "none"

TransferStatuses == {"pending", "approved", "rejected", "in_transit", "completed", "cancelled"}

ApproveFrom == {"pending"}
RejectFrom == {"pending"}
\* A variant guard that lets a pending transfer be dispatched.
DispatchFromPendingToo ==
    {"pending", "approved"}

DispatchFrom ==
    {"approved"}
ReceiveFrom == {"in_transit"}
\* cancel_transfer refuses only completed and cancelled transfers
CancelFrom == TransferStatuses \ {"completed", "cancelled"}

\* ---------------------------------------------------------------- approve_transfer
ApproveTransfer(p, t) ==
    /\ Free(p)
    /\ LET g == TransferGuard(t, ApproveFrom)
       IN  IF g # "none"
           THEN Start(p, Idle(Response("approve_transfer", g, t)))
           ELSE Start(p,
                    [op |-> "approve_transfer", id |-> t, pc |-> "check", call |-> NoCall,
                     transfer |-> transfers[t], i |-> 1])
    /\ raced' = Raced(p, t, TransferGuard(t, ApproveFrom))
    /\ UNCHANGED <<inventory, movements, transfers, transits, snap, dirty, officeVars>>

\* "Check stock again", one detail per read
ApproveTransferCheck(p) ==
    /\ At(p, "approve_transfer", "check")
    /\ LET r == req[p]
           d == r.transfer.details[r.i]
       IN  IF ~check_availability(<<r.transfer.source_warehouse_id, d.product_id>>,
                                  d.requested_quantity)
           THEN Settle(p, Idle(Response(r.op, "InsufficientStock", r.id)))
           ELSE IF r.i < Len(r.transfer.details)
           THEN Settle(p, [req[p] EXCEPT !.i = r.i + 1])
           ELSE Settle(p, [req[p] EXCEPT !.pc = "save"])
    /\ UNCHANGED <<inventory, movements, transfers, transits, snap, dirty, raced, officeVars>>

ApproveTransferSave(p) ==
    /\ At(p, "approve_transfer", "save")
    /\ transfers' = [transfers EXCEPT ![req[p].id] = [req[p].transfer EXCEPT !.status = "approved"]]
    /\ Settle(p, Idle(Response("approve_transfer", "ok", req[p].id)))
    /\ UNCHANGED <<inventory, movements, transits, snap, dirty, raced, officeVars>>

\* ---------------------------------------------------------------- reject_transfer
RejectTransfer(p, t) ==
    /\ Free(p)
    /\ LET g == TransferGuard(t, RejectFrom)
       IN  IF g # "none"
           THEN Start(p, Idle(Response("reject_transfer", g, t)))
           ELSE Start(p,
                    [op |-> "reject_transfer", id |-> t, pc |-> "save", call |-> NoCall,
                     transfer |-> transfers[t]])
    /\ raced' = Raced(p, t, TransferGuard(t, RejectFrom))
    /\ UNCHANGED <<inventory, movements, transfers, transits, snap, dirty, officeVars>>

RejectTransferSave(p) ==
    /\ At(p, "reject_transfer", "save")
    /\ transfers' = [transfers EXCEPT ![req[p].id] = [req[p].transfer EXCEPT !.status = "rejected"]]
    /\ Settle(p, Idle(Response("reject_transfer", "ok", req[p].id)))
    /\ UNCHANGED <<inventory, movements, transits, snap, dirty, raced, officeVars>>

\* ---------------------------------------------------------------- dispatch_transfer
DispatchTransfer(p, t) ==
    /\ Free(p)
    /\ LET g == TransferGuard(t, DispatchFrom)
       IN  IF g # "none"
           THEN Start(p, Idle(Response("dispatch_transfer", g, t)))
           ELSE Start(p,
                    [op |-> "dispatch_transfer", id |-> t, pc |-> "lines",
                     call |-> DispatchCall(transfers[t], t, 1),
                     transfer |-> transfers[t], i |-> 1])
    /\ raced' = Raced(p, t, TransferGuard(t, DispatchFrom))
    /\ UNCHANGED <<inventory, movements, transfers, transits, snap, dirty, officeVars>>

DispatchTransferSave(p) ==
    /\ At(p, "dispatch_transfer", "save")
    /\ transfers' = [transfers EXCEPT ![req[p].id] = [req[p].transfer EXCEPT !.status = "in_transit"]]
    /\ Settle(p, [req[p] EXCEPT !.pc = "transit"])
    /\ UNCHANGED <<inventory, movements, transits, snap, dirty, raced, officeVars>>

\* "Create transit record"
DispatchTransferTransit(p) ==
    /\ At(p, "dispatch_transfer", "transit")
    /\ transits' = Append(transits, [transfer_id |-> req[p].id, transit_status |-> "preparing"])
    /\ Settle(p, Idle(Response("dispatch_transfer", "ok", req[p].id)))
    /\ UNCHANGED <<inventory, movements, transfers, snap, dirty, raced, officeVars>>

\* ---------------------------------------------------------------- receive_transfer
ReceiveTransfer(p, t, received_details) ==
    /\ Free(p)
    /\ LET g == TransferGuard(t, ReceiveFrom)
       IN  IF g # "none"
           THEN Start(p, Idle(Response("receive_transfer", g, t)))
           ELSE LET n == NextReceived(transfers[t].details, received_details, 1)
                IN  Start(p,
                        [op |-> "receive_transfer", id |-> t,
                         pc |-> IF n = 0 THEN "save" ELSE "lines",
                         call |-> IF n = 0 THEN NoCall
                                  ELSE ReceiveCall(transfers[t], t, received_details[n]),
                         transfer |-> transfers[t],
                         received_details |-> received_details,
                         j |-> n])
    /\ raced' = Raced(p, t, TransferGuard(t, ReceiveFrom))
    /\ UNCHANGED <<inventory, movements, transfers, transits, snap, dirty, officeVars>>

ReceiveTransferSave(p) ==
    /\ At(p, "receive_transfer", "save")
    /\ transfers' = [transfers EXCEPT ![req[p].id] = [req[p].transfer EXCEPT !.status = "completed"]]
    /\ Settle(p, [req[p] EXCEPT !.pc = "transit"])
    /\ UNCHANGED <<inventory, movements, transits, snap, dirty, raced, officeVars>>

\* "Update transit record": GoodsInTransit.find_one by transfer_id, saved as delivered
FirstTransit(t) ==
    IF \E i \in 1..Len(transits) : transits[i].transfer_id = t
    THEN CHOOSE i \in 1..Len(transits) :
            /\ transits[i].transfer_id = t
            /\ \A h \in 1..(i - 1) : transits[h].transfer_id # t
    ELSE 0

ReceiveTransferTransit(p) ==
    /\ At(p, "receive_transfer", "transit")
    /\ LET i == FirstTransit(req[p].id)
       IN  transits' = IF i = 0 THEN transits
                       ELSE [transits EXCEPT ![i].transit_status = "delivered"]
    /\ Settle(p, Idle(Response("receive_transfer", "ok", req[p].id)))
    /\ UNCHANGED <<inventory, movements, transfers, snap, dirty, raced, officeVars>>

\* ---------------------------------------------------------------- cancel_transfer
CancelTransfer(p, t) ==
    /\ Free(p)
    /\ LET g == TransferGuard(t, CancelFrom)
       IN  IF g # "none"
           THEN Start(p, Idle(Response("cancel_transfer", g, t)))
           ELSE LET n == IF transfers[t].status = "in_transit"
                         THEN NextRestorable(transfers[t].details, 1)
                         ELSE 0
                IN  Start(p,
                        [op |-> "cancel_transfer", id |-> t,
                         pc |-> IF n = 0 THEN "save" ELSE "lines",
                         call |-> IF n = 0 THEN NoCall ELSE CancelCall(transfers[t], t, n),
                         transfer |-> transfers[t],
                         i |-> n])
    /\ raced' = Raced(p, t, TransferGuard(t, CancelFrom))
    /\ UNCHANGED <<inventory, movements, transfers, transits, snap, dirty, officeVars>>

CancelTransferSave(p) ==
    /\ At(p, "cancel_transfer", "save")
    /\ transfers' = [transfers EXCEPT ![req[p].id] = [req[p].transfer EXCEPT !.status = "cancelled"]]
    /\ Settle(p, Idle(Response("cancel_transfer", "ok", req[p].id)))
    /\ UNCHANGED <<inventory, movements, transits, snap, dirty, raced, officeVars>>

\* ---------------------------------------------------------------- adjust_inventory
\* InventoryAdjustment: new_quantity >= 0
AdjustInventory(p, k, new_quantity) ==
    /\ Free(p)
    /\ Start(p,
            [op |-> "adjust_inventory", id |-> 0, pc |-> "call",
             call |-> UpdateStockCall(k[1], k[2], new_quantity, "adjustment", None, None)])
    /\ UNCHANGED <<inventory, movements, transfers, transits, snap, dirty, raced, officeVars>>

\* ---------------------------------------------------------------- update_stock
\* InventoryService.update_stock called on its own, with any movement type
\* ("return" is none of the types it knows).
LedgerTypes == MovementTypes \cup {"return"}

LedgerPairs == {<<"w1", "p1">>, <<"w2", "p1">>}

UpdateStock(p, k, quantity, movement_type) ==
    /\ Free(p)
    /\ served < MaxCalls
    /\ Start(p,
            [op |-> "update_stock", id |-> 0, pc |-> "call",
             call |-> UpdateStockCall(k[1], k[2], quantity, movement_type, None, None)])
    /\ UNCHANGED <<inventory, movements, transfers, transits, snap, dirty, raced, officeVars>>

\* ---------------------------------------------------------------- initial state
\* The store after adjust_inventory set the balances of warehouse w1: one
\* document and one adjustment movement per pair.  Warehouse w2 has no
\* balance document yet.
Seeded(seed) ==
    /\ inventory = [k \in Pairs |->
            IF k = <<"w1", "p1">> THEN Some(NewInventory(seed))
            ELSE IF k = <<"w1", "p2">> THEN Some(NewInventory(1))
            ELSE None]
    /\ movements =
            <<InventoryMovement("w1", "p1", "adjustment", seed, 0, seed, None, None),
              InventoryMovement("w1", "p2", "adjustment", 1, 0, 1, None, None)>>

\* No request in service, no transfer, no cash cut and no incident yet.
Fresh ==
    /\ transfers = << >>
    /\ transits = << >>
    /\ req = [p \in Procs |-> NoRequest]
    /\ out = NoResponse
    /\ served = 0
    /\ snap = << >>
    /\ dirty = {}
    /\ raced = {}
    /\ cash_cuts = << >>
    /\ cash_movements = << >>
    /\ incidents = << >>
    /\ closings = << >>
    /\ sold = << >>

Init ==
    /\ \E seed \in 0..MaxQty : Seeded(seed)
    /\ Fresh
    /\ expenses = << >>
    /\ sales = << >>

NextTransfer ==
    \/ \E p \in Procs : UpdateStockGet(p)
    \/ \E p \in Procs : UpdateStockCreate(p)
    \/ \E p \in Procs : UpdateStockSave(p)
    \/ \E p \in Procs : UpdateStockInsert(p)
    \/ \E p \in Procs, route \in RouteInputs, details \in DetailInputs : CreateTransfer(p, route, details)
    \/ \E p \in Procs : CreateTransferCheck(p)
    \/ \E p \in Procs : CreateTransferInsert(p)
    \/ \E p \in Procs, t \in TransferIds : ApproveTransfer(p, t)
    \/ \E p \in Procs : ApproveTransferCheck(p)
    \/ \E p \in Procs : ApproveTransferSave(p)
    \/ \E p \in Procs, t \in TransferIds : RejectTransfer(p, t)
    \/ \E p \in Procs : RejectTransferSave(p)
    \/ \E p \in Procs, t \in TransferIds : DispatchTransfer(p, t)
    \/ \E p \in Procs : DispatchTransferSave(p)
    \/ \E p \in Procs : DispatchTransferTransit(p)
    \/ \E p \in Procs, t \in TransferIds, rd \in ReceivedInputs : ReceiveTransfer(p, t, rd)
    \/ \E p \in Procs : ReceiveTransferSave(p)
    \/ \E p \in Procs : ReceiveTransferTransit(p)
    \/ \E p \in Procs, t \in TransferIds : CancelTransfer(p, t)
    \/ \E p \in Procs : CancelTransferSave(p)
    \/ \E p \in Procs, k \in AdjustInputs, q \in 0..MaxQty : AdjustInventory(p, k, q)

SpecTransfer == Init /\ [][NextTransfer]_vars

\* ---------------------------------------------------------------- cash cuts
\* Calendar days: a cut, a sale and an expense each carry one.
Days == {1, 2}

\* The day the cuts of the model are opened for.
CutDay == 1

PaymentMethods == <<"cash", "card">>

Sale(warehouse_id, sale_date, total, status, payment_method_id) ==
    [warehouse_id |-> warehouse_id,
     sale_date |-> sale_date,
     total |-> total,
     status |-> status,
     payment_method_id |-> payment_method_id]

OperationalExpense(warehouseId, expenseDate, amount, status) ==
    [warehouseId |-> warehouseId,
     expenseDate |-> expenseDate,
     amount |-> amount,
     status |-> status]

CashCut(warehouseId, cutDate, initialAmount) ==
    [warehouseId |-> warehouseId,
     cutDate |-> cutDate,
     closingTime |-> None,
     initialAmount |-> initialAmount,
     cashSales |-> 0,
     totalSales |-> 0,
     totalExpenses |-> 0,
     expectedFinalAmount |-> 0,
     actualFinalAmount |-> None,
     difference |-> None,
     status |-> "open",
     transactionCount |-> 0]

CashMovement(warehouseId, cashCutId, movementType, concept, amount, referenceId, referenceType) ==
    [warehouseId |-> warehouseId,
     cashCutId |-> cashCutId,
     movementType |-> movementType,
     concept |-> concept,
     amount |-> amount,
     referenceId |-> referenceId,
     referenceType |-> referenceType]

RECURSIVE SumOf(_, _)
\* sum(row[field] for row in rows)
SumOf(rows, field) ==
    IF rows = << >> THEN 0 ELSE Head(rows)[field] + SumOf(Tail(rows), field)

\* SaleService.calculate_daily_sales_total: the day's sales of the warehouse
\* that are not cancelled, grouped by payment method; by_payment_method is the
\* list of the groups.
calculate_daily_sales_total(warehouse_id, date) ==
    LET Matches(sale) ==
            /\ sale.warehouse_id = warehouse_id
            /\ sale.sale_date = date
            /\ sale.status # "cancelled"
        matched == SelectSeq(sales, Matches)
        Group(m) ==
            LET Paid(sale) == sale.payment_method_id = PaymentMethods[m]
                rows == SelectSeq(matched, Paid)
            IN  IF rows = << >> THEN << >>
                ELSE <<[id |-> PaymentMethods[m], total |-> SumOf(rows, "total"), count |-> Len(rows)]>>
        results == Group(1) \o Group(2)
    IN  [total_sales |-> SumOf(results, "total"),
         sales_count |-> SumOf(results, "count"),
         by_payment_method |-> results]

\* close_cash_cut, "Get daily expenses": the approved expenses of the warehouse
\* on the cut's day.
daily_expenses(warehouseId, cutDate) ==
    LET Matches(expense) ==
            /\ expense.warehouseId = warehouseId
            /\ expense.expenseDate = cutDate
            /\ expense.status = "approved"
    IN  SelectSeq(expenses, Matches)

\* close_cash_cut, "Update cut":
\* sales_report.get("by_payment_method", {}).get("cash", Decimal("0")).
\* by_payment_method is always in the report and is a list, also when it is
\* empty, and a list has no get: the expression raises AttributeError.
CashSales(sales_report) ==
    [raise |-> "AttributeError", value |-> 0]

\* CashCut.find_one({warehouseId, status: "open"})
OpenCuts(warehouse_id) ==
    {c \in 1..Len(cash_cuts) :
        /\ cash_cuts[c].warehouseId = warehouse_id
        /\ cash_cuts[c].status = "open"}

\* open_cash_cut: Warehouse.get, and 404 when there is no such warehouse (the
\* warehouses are never written, so the read is one step with the arrival).
OpenCashCut(p, warehouse_id, cut_date, initial_amount) ==
    /\ Free(p)
    /\ Len(cash_cuts) + InService("open_cash_cut") < MaxCuts
    /\ IF warehouse_id \notin Warehouses
       THEN Start(p, Idle(Response("open_cash_cut", "NotFound", 0)))
       ELSE Start(p,
                [op |-> "open_cash_cut", id |-> 0, pc |-> "find", call |-> NoCall,
                 warehouse_id |-> warehouse_id, cut_date |-> cut_date,
                 initial_amount |-> initial_amount])
    /\ UNCHANGED <<stockVars, officeVars>>

\* "Verify there's no open cut for this warehouse"
OpenCashCutFind(p) ==
    /\ At(p, "open_cash_cut", "find")
    /\ IF OpenCuts(req[p].warehouse_id) # {}
       THEN Settle(p, Idle(Response("open_cash_cut", "InvalidState", 0)))
       ELSE Settle(p, [req[p] EXCEPT !.pc = "insert"])
    /\ UNCHANGED <<stockVars, officeVars>>

\* cut.insert()
OpenCashCutInsert(p) ==
    /\ At(p, "open_cash_cut", "insert")
    /\ cash_cuts' = Append(cash_cuts,
            CashCut(req[p].warehouse_id, req[p].cut_date, req[p].initial_amount))
    /\ closings' = Append(closings, 0)
    /\ Settle(p, [req[p] EXCEPT !.pc = "movement", !.id = Len(cash_cuts) + 1])
    /\ UNCHANGED <<stockVars, cash_movements, expenses, sales, incidents, sold>>

\* A variant of open_cash_cut whose initial movement names no cut.
InitialFundUntied(r) ==
    CashMovement(r.warehouse_id, None, "inbound", "initial_fund", r.initial_amount, None, None)

\* open_cash_cut, "Create initial movement", from the request's locals.
InitialFund(r) ==
    CashMovement(r.warehouse_id, Some(r.id), "inbound", "initial_fund", r.initial_amount, None, None)

\* movement.insert(), and the response
OpenCashCutMovement(p) ==
    /\ At(p, "open_cash_cut", "movement")
    /\ cash_movements' = Append(cash_movements, InitialFund(req[p]))
    /\ Settle(p, Idle(Response("open_cash_cut", "ok", req[p].id)))
    /\ UNCHANGED <<stockVars, cash_cuts, expenses, sales, incidents, closings, sold>>

\* close_cash_cut: CashCut.get and the status check
CloseCashCut(p, c, actual_final_amount) ==
    /\ Free(p)
    /\ IF c > Len(cash_cuts)
       THEN /\ Start(p, Idle(Response("close_cash_cut", "NotFound", c)))
            /\ closings' = closings
       ELSE IF cash_cuts[c].status # "open"
       THEN /\ Start(p, Idle(Response("close_cash_cut", "InvalidState", c)))
            /\ closings' = [closings EXCEPT ![c] = @ + 1]
       ELSE /\ Start(p,
                    [op |-> "close_cash_cut", id |-> c, pc |-> "sales", call |-> NoCall,
                     cut |-> cash_cuts[c], actual_final_amount |-> actual_final_amount,
                     sales_report |-> [total_sales |-> 0, sales_count |-> 0,
                                       by_payment_method |-> << >>]])
            /\ closings' = closings
    /\ UNCHANGED <<stockVars, cash_cuts, cash_movements, expenses, sales, incidents, sold>>

\* "Get daily sales"
CloseCashCutSales(p) ==
    /\ At(p, "close_cash_cut", "sales")
    /\ Settle(p, [req[p] EXCEPT
            !.pc = "expenses",
            !.sales_report = calculate_daily_sales_total(req[p].cut.warehouseId, req[p].cut.cutDate)])
    /\ UNCHANGED <<stockVars, officeVars>>

\* The cut as close_cash_cut fills it in before cut.save().
Closed(cut, sales_report, total_expenses, actual_final_amount, cash_sales) ==
    LET expected_final_amount == cut.initialAmount + sales_report.total_sales - total_expenses
    IN  [cut EXCEPT !.closingTime = Some("utcnow"),
                    !.cashSales = cash_sales,
                    !.totalSales = sales_report.total_sales,
                    !.totalExpenses = total_expenses,
                    !.expectedFinalAmount = expected_final_amount,
                    !.actualFinalAmount = Some(actual_final_amount),
                    !.difference = Some(actual_final_amount - expected_final_amount),
                    !.status = "closed",
                    !.transactionCount = sales_report.sales_count]

\* "Get daily expenses", the totals and "Update cut".  The update raises
\* before cut.save() is reached, and the endpoint answers 500; the save is
\* folded into this step for the case that the update returns.
CloseCashCutExpenses(p) ==
    /\ At(p, "close_cash_cut", "expenses")
    /\ LET r == req[p]
           total_expenses == SumOf(daily_expenses(r.cut.warehouseId, r.cut.cutDate), "amount")
           cash_sales == CashSales(r.sales_report)
       IN  IF cash_sales.raise # "none"
           THEN /\ Settle(p, Idle(Response("close_cash_cut", cash_sales.raise, r.id)))
                /\ cash_cuts' = cash_cuts
           ELSE /\ Settle(p, Idle(Response("close_cash_cut", "ok", r.id)))
                /\ cash_cuts' = [cash_cuts EXCEPT ![r.id] =
                        Closed(r.cut, r.sales_report, total_expenses,
                               r.actual_final_amount, cash_sales.value)]
    /\ closings' = [closings EXCEPT ![req[p].id] = @ + 1]
    /\ UNCHANGED <<stockVars, cash_movements, expenses, sales, incidents, sold>>

\* The sales and the expenses the store holds when the cash desk opens.
SaleStocks ==
    {<< >>}
    \cup {<<Sale("w1", d, MaxAmount, "completed", "cash")>> : d \in Days}
    \cup {<<Sale("w1", 1, MaxAmount, "cancelled", "cash")>>}

ExpenseStocks ==
    {<< >>}
    \cup {<<OperationalExpense("w1", 1, 1, st)>> : st \in {"pending", "approved"}}

InitCash ==
    /\ Seeded(0)
    /\ Fresh
    /\ sales \in SaleStocks
    /\ expenses \in ExpenseStocks

\* The warehouses the cash desk requests name: "w0" is no warehouse.
CutWarehouses == Warehouses \cup {"w0"}

NextCash ==
    \/ \E p \in Procs, w \in CutWarehouses, a \in {0, MaxAmount} : OpenCashCut(p, w, CutDay, a)
    \/ \E p \in Procs : OpenCashCutFind(p)
    \/ \E p \in Procs : OpenCashCutInsert(p)
    \/ \E p \in Procs : OpenCashCutMovement(p)
    \/ \E p \in Procs, c \in 1..MaxCuts, a \in {0, MaxAmount} : CloseCashCut(p, c, a)
    \/ \E p \in Procs : CloseCashCutSales(p)
    \/ \E p \in Procs : CloseCashCutExpenses(p)

SpecCash == InitCash /\ [][NextCash]_vars

\* ---------------------------------------------------------------- incidents
IncidentStatuses == {"open", "investigating", "resolved", "closed"}

Priorities == {"low", "high"}

\* change_incident_status, valid_transitions
valid_transitions(status) ==
    IF status = "open" THEN {"investigating", "resolved"}
    ELSE IF status = "investigating" THEN {"open", "resolved"}
    ELSE IF status = "resolved" THEN {"closed"}
    ELSE {}

\* Incident.get and the answer when there is no such incident
IncidentGuard(i, refused) ==
    IF i > Len(incidents) THEN "NotFound"
    ELSE IF incidents[i].status \in refused THEN "InvalidState"
    ELSE "none"

\* create_incident: IncidentType.get, Warehouse.get, generate_incident_number
CreateIncident(p, priority) ==
    /\ Free(p)
    /\ Len(incidents) + InService("create_incident") < MaxIncidents
    /\ Start(p,
            [op |-> "create_incident", id |-> 0, pc |-> "insert", call |-> NoCall,
             incident |-> [status |-> "open", priority |-> priority,
                           resolution_date |-> None]])
    /\ UNCHANGED <<stockVars, officeVars>>

\* incident.insert()
CreateIncidentInsert(p) ==
    /\ At(p, "create_incident", "insert")
    /\ incidents' = Append(incidents, req[p].incident)
    /\ Settle(p, Idle(Response("create_incident", "ok", Len(incidents) + 1)))
    /\ UNCHANGED <<stockVars, cash_cuts, cash_movements, expenses, sales, closings, sold>>

\* incident.save() of update_incident, resolve_incident and change_incident_status
IncidentOps == {"update_incident", "resolve_incident", "change_incident_status"}

IncidentSave(p) ==
    /\ req[p].op \in IncidentOps
    /\ req[p].pc = "save"
    /\ incidents' = [incidents EXCEPT ![req[p].id] = req[p].incident]
    /\ Settle(p, Idle(Response(req[p].op, "ok", req[p].id)))
    /\ UNCHANGED <<stockVars, cash_cuts, cash_movements, expenses, sales, closings, sold>>

\* update_incident refuses only a resolved incident
UpdateIncident(p, i, priority) ==
    /\ Free(p)
    /\ LET g == IncidentGuard(i, {"resolved"})
       IN  IF g # "none"
           THEN Start(p, Idle(Response("update_incident", g, i)))
           ELSE Start(p,
                    [op |-> "update_incident", id |-> i, pc |-> "save", call |-> NoCall,
                     incident |-> [incidents[i] EXCEPT !.priority = priority]])
    /\ UNCHANGED <<stockVars, officeVars>>

\* resolve_incident refuses only a resolved incident
ResolveIncident(p, i) ==
    /\ Free(p)
    /\ LET g == IncidentGuard(i, {"resolved"})
       IN  IF g # "none"
           THEN Start(p, Idle(Response("resolve_incident", g, i)))
           ELSE Start(p,
                    [op |-> "resolve_incident", id |-> i, pc |-> "save", call |-> NoCall,
                     incident |-> [incidents[i] EXCEPT !.status = "resolved",
                                                       !.resolution_date = Some("utcnow")]])
    /\ UNCHANGED <<stockVars, officeVars>>

ChangeIncidentStatus(p, i, new_status) ==
    /\ Free(p)
    /\ LET g == IncidentGuard(i, {})
       IN  IF g # "none"
           THEN Start(p, Idle(Response("change_incident_status", g, i)))
           ELSE IF new_status \notin valid_transitions(incidents[i].status)
           THEN Start(p, Idle(Response("change_incident_status", "InvalidTransition", i)))
           ELSE Start(p,
                    [op |-> "change_incident_status", id |-> i, pc |-> "save", call |-> NoCall,
                     incident |-> [incidents[i] EXCEPT
                        !.status = new_status,
                        !.resolution_date =
                            IF new_status = "resolved" /\ @ = None THEN Some("utcnow") ELSE @]])
    /\ UNCHANGED <<stockVars, officeVars>>

NextIncident ==
    \/ \E p \in Procs, pr \in Priorities : CreateIncident(p, pr)
    \/ \E p \in Procs : CreateIncidentInsert(p)
    \/ \E p \in Procs : IncidentSave(p)
    \/ \E p \in Procs, i \in 1..MaxIncidents, pr \in Priorities : UpdateIncident(p, i, pr)
    \/ \E p \in Procs, i \in 1..MaxIncidents : ResolveIncident(p, i)
    \/ \E p \in Procs, i \in 1..MaxIncidents, st \in IncidentStatuses : ChangeIncidentStatus(p, i, st)

InitIncident ==
    /\ Seeded(0)
    /\ Fresh
    /\ expenses = << >>
    /\ sales = << >>

SpecIncident == InitIncident /\ [][NextIncident]_vars

NextLedger ==
    \/ \E p \in Procs : UpdateStockGet(p)
    \/ \E p \in Procs : UpdateStockCreate(p)
    \/ \E p \in Procs : UpdateStockSave(p)
    \/ \E p \in Procs : UpdateStockInsert(p)
    \/ \E p \in Procs, k \in LedgerPairs, q \in 0..MaxQty, ty \in LedgerTypes : UpdateStock(p, k, q, ty)

SpecLedger == Init /\ [][NextLedger]_vars

\* ---------------------------------------------------------------- sales
\* SaleDetail: the product and the quantity of a line (unit prices, discounts
\* and totals do not reach the stock ledger and are left out).
SaleLine(product_id, quantity) == [product_id |-> product_id, quantity |-> quantity]

\* Sale as create_sale builds it: status keeps its default, "completed".
NewSale(sale_number, warehouse_id, details) ==
    [sale_number |-> sale_number,
     warehouse_id |-> warehouse_id,
     details |-> details,
     status |-> "completed"]

\* The sale numbers generate_sale_number draws from (it draws at random; the
\* numbers are interchangeable, so the model draws the first unused one).
SaleNumbers == 1..(MaxSales + 1)

\* The frame of a running reserve_stock, release_reserved_stock or
\* confirm_sale_stock call.
StockCall(fn, warehouse_id, line, sale_id) ==
    [fn |-> fn,
     pc |-> "get",
     warehouse_id |-> warehouse_id,
     product_id |-> line.product_id,
     quantity |-> line.quantity,
     sale_id |-> sale_id,
     inventory |-> NewInventory(0),
     previous_quantity |-> 0]

\* A variant of reserve_stock that leaves the available quantity as it is.
ReservedWithoutDebit(doc, quantity) ==
    [doc EXCEPT !.reserved_quantity = @ + quantity]

\* reserve_stock on the document it read: the document it saves.
Reserved(doc, quantity) ==
    [doc EXCEPT !.available_quantity = @ - quantity, !.reserved_quantity = @ + quantity]

\* release_reserved_stock on the document it read.
Released(doc, quantity) ==
    [doc EXCEPT !.reserved_quantity = @ - quantity, !.available_quantity = @ + quantity]

\* A variant of confirm_sale_stock that leaves the reserved stock out of the
\* quantity its movement starts from.
PreviousTotalAvailableOnly(doc) ==
    doc.available_quantity

\* confirm_sale_stock: previous_quantity, from the document it read.
PreviousTotal(doc) ==
    doc.reserved_quantity + doc.available_quantity

\* A variant of confirm_sale_stock that takes the quantity from the available
\* stock as well.
ConfirmedFromAvailable(doc, quantity) ==
    [doc EXCEPT !.reserved_quantity = @ - quantity, !.available_quantity = @ - quantity]

\* confirm_sale_stock on the document it read.
Confirmed(doc, quantity) ==
    [doc EXCEPT !.reserved_quantity = @ - quantity]

\* create_sale's except block: release_reserved_stock for every entry of
\* reserved_products, then the error goes to the client.  The entries are the
\* first r.reserved lines of the request.
Failed(r, error) ==
    IF r.reserved = 0
    THEN Idle(Response(r.op, error, 0))
    ELSE [r EXCEPT !.error = error, !.pc = "release", !.j = 1,
                   !.call = StockCall("release_reserved_stock", r.warehouse_id, r.details[1], r.sale)]

\* create_sale after reserve_stock returned True for line i.
AfterReserve(r) ==
    IF r.i < Len(r.details)
    THEN [r EXCEPT !.call = NoCall, !.reserved = r.i, !.i = r.i + 1, !.pc = "check"]
    ELSE [r EXCEPT !.call = NoCall, !.reserved = r.i, !.pc = "number"]

\* create_sale after confirm_sale_stock returned for line i.
AfterConfirm(r) ==
    IF r.i < Len(r.details)
    THEN [r EXCEPT !.i = r.i + 1,
                   !.call = StockCall("confirm_sale_stock", r.warehouse_id, r.details[r.i + 1], r.sale)]
    ELSE Idle(Response(r.op, "ok", r.sale))

\* create_sale's except block after release_reserved_stock returned for entry j
\* (its result is not looked at).
AfterRelease(r) ==
    IF r.j < r.reserved
    THEN [r EXCEPT !.j = r.j + 1,
                   !.call = StockCall("release_reserved_stock", r.warehouse_id, r.details[r.j + 1], r.sale)]
    ELSE Idle(Response(r.op, r.error, 0))

\* No other request is in service.
Quiet(p) == \A q \in Procs \ {p} : ~Busy(q)

\* POST /sales.  Warehouse.get, Customer.get and PaymentMethod.get read
\* collections no operation of the model writes: the customer and the payment
\* method are active, the warehouse may be unknown.  before, mov0, since and
\* quiet are history: the balances, the length of the movement log and the
\* request count when the request arrived, and whether it arrived alone.
CreateSale(p, warehouse_id, details) ==
    /\ Free(p)
    /\ served < MaxSaleRequests
    /\ Len(sales) + InService("create_sale") < MaxSales
    /\ IF warehouse_id \notin Warehouses
       THEN Start(p, Idle(Response("create_sale", "NotFound", 0)))
       ELSE Start(p,
                [op |-> "create_sale", id |-> 0, pc |-> "check", call |-> NoCall,
                 warehouse_id |-> warehouse_id, details |-> details,
                 i |-> 1, j |-> 0, reserved |-> 0, sale_number |-> 0, sale |-> 0,
                 error |-> "none",
                 before |-> inventory, mov0 |-> Len(movements),
                 since |-> served + 1, quiet |-> Quiet(p)])
    /\ UNCHANGED <<stockVars, officeVars>>

\* Product.get and check_availability for line i (the products are never
\* written, so the two reads are one step), then the call of reserve_stock.
CreateSaleCheck(p) ==
    /\ At(p, "create_sale", "check")
    /\ LET r == req[p]
           line == r.details[r.i]
       IN  IF line.product_id \notin Products
           THEN Settle(p, Failed(r, "NotFound"))
           ELSE IF ~check_availability(<<r.warehouse_id, line.product_id>>, line.quantity)
           THEN Settle(p, Failed(r, "InsufficientStock"))
           ELSE Settle(p, [r EXCEPT !.call = StockCall("reserve_stock", r.warehouse_id, line, r.sale)])
    /\ UNCHANGED <<stockVars, officeVars>>

\* reserve_stock: get_inventory, and False when the stock is not there.
ReserveStockGet(p) ==
    /\ InCall(p, "reserve_stock", "get")
    /\ LET c == req[p].call
           k == <<c.warehouse_id, c.product_id>>
       IN  IF inventory[k] = None \/ Available(k) < c.quantity
           THEN Settle(p, Failed([req[p] EXCEPT !.call = NoCall], "ReserveFailed"))
           ELSE Settle(p, [req[p] EXCEPT !.call.pc = "save",
                                        !.call.inventory = Reserved(inventory[k][1], c.quantity)])
    /\ UNCHANGED <<stockVars, officeVars>>

\* reserve_stock: inventory.save(), and True
ReserveStockSave(p) ==
    /\ InCall(p, "reserve_stock", "save")
    /\ LET c == req[p].call
           k == <<c.warehouse_id, c.product_id>>
       IN  /\ inventory' = [inventory EXCEPT ![k] = Some(c.inventory)]
           /\ dirty' = Touched(p, k)
    /\ Settle(p, AfterReserve(req[p]))
    /\ UNCHANGED <<movements, transfers, transits, snap, raced, officeVars>>

\* generate_sale_number: a number Sale.find_one does not find.
CreateSaleNumber(p, n) ==
    /\ At(p, "create_sale", "number")
    /\ \A s \in 1..Len(sales) : sales[s].sale_number # n
    /\ \A m \in 1..(n - 1) : \E s \in 1..Len(sales) : sales[s].sale_number = m
    /\ Settle(p, [req[p] EXCEPT !.sale_number = n, !.pc = "insert"])
    /\ UNCHANGED <<stockVars, officeVars>>

\* sale.insert() (sale_number is unique: DuplicateKeyError when another sale
\* took the number meanwhile), then the first call of confirm_sale_stock.
CreateSaleInsert(p) ==
    /\ At(p, "create_sale", "insert")
    /\ LET r == req[p]
           s == Len(sales) + 1
       IN  IF \E t \in 1..Len(sales) : sales[t].sale_number = r.sale_number
           THEN /\ Settle(p, Failed(r, "DuplicateKey"))
                /\ UNCHANGED <<sales, sold>>
           ELSE /\ sales' = Append(sales, NewSale(r.sale_number, r.warehouse_id, r.details))
                /\ sold' = Append(sold, [before |-> r.before, mov0 |-> r.mov0, since |-> r.since,
                                         alone |-> FALSE])
                /\ Settle(p, [r EXCEPT !.sale = s, !.i = 1, !.pc = "confirm",
                                       !.call = StockCall("confirm_sale_stock", r.warehouse_id,
                                                          r.details[1], s)])
    /\ UNCHANGED <<stockVars, cash_cuts, cash_movements, expenses, incidents, closings>>

\* confirm_sale_stock: get_inventory, and HTTP 400 when the reserved stock is
\* not there.
ConfirmSaleStockGet(p) ==
    /\ InCall(p, "confirm_sale_stock", "get")
    /\ LET c == req[p].call
           k == <<c.warehouse_id, c.product_id>>
       IN  IF inventory[k] = None \/ inventory[k][1].reserved_quantity < c.quantity
           THEN Settle(p, Failed([req[p] EXCEPT !.call = NoCall], "InsufficientReserved"))
           ELSE Settle(p, [req[p] EXCEPT
                    !.call.pc = "save",
                    !.call.previous_quantity = PreviousTotal(inventory[k][1]),
                    !.call.inventory = Confirmed(inventory[k][1], c.quantity)])
    /\ UNCHANGED <<stockVars, officeVars>>

\* confirm_sale_stock: inventory.save()
ConfirmSaleStockSave(p) ==
    /\ InCall(p, "confirm_sale_stock", "save")
    /\ LET c == req[p].call
           k == <<c.warehouse_id, c.product_id>>
       IN  /\ inventory' = [inventory EXCEPT ![k] = Some(c.inventory)]
           /\ dirty' = Touched(p, k)
    /\ Settle(p, [req[p] EXCEPT !.call.pc = "insert"])
    /\ UNCHANGED <<movements, transfers, transits, snap, raced, officeVars>>

\* A variant of confirm_sale_stock whose movement names no sale.
SaleMovementUnreferenced(c) ==
    InventoryMovement(c.warehouse_id, c.product_id, "outbound", c.quantity,
                      c.previous_quantity,
                      c.inventory.available_quantity + c.inventory.reserved_quantity,
                      None, None)

\* confirm_sale_stock, "Create outbound movement", from the call's locals.
SaleMovement(c) ==
    InventoryMovement(c.warehouse_id, c.product_id, "outbound", c.quantity,
                      c.previous_quantity,
                      c.inventory.available_quantity + c.inventory.reserved_quantity,
                      Some(SaleRef(c.sale_id)), Some("sale"))

\* confirm_sale_stock: movement.insert(), and the return to create_sale; the
\* last line's return ends the request.
ConfirmSaleStockInsert(p) ==
    /\ InCall(p, "confirm_sale_stock", "insert")
    /\ LET c == req[p].call
           r == AfterConfirm(req[p])
       IN  /\ movements' = Append(movements, SaleMovement(c))
           /\ sold' = IF r.op = "idle"
                      THEN [sold EXCEPT ![c.sale_id].alone = req[p].quiet /\ served = req[p].since]
                      ELSE sold
           /\ Settle(p, r)
    /\ UNCHANGED <<inventory, transfers, transits, snap, dirty, raced,
                   cash_cuts, cash_movements, expenses, sales, incidents, closings>>

\* release_reserved_stock: get_inventory, and False when the reserved stock is
\* not there.
ReleaseReservedStockGet(p) ==
    /\ InCall(p, "release_reserved_stock", "get")
    /\ LET c == req[p].call
           k == <<c.warehouse_id, c.product_id>>
       IN  IF inventory[k] = None \/ inventory[k][1].reserved_quantity < c.quantity
           THEN Settle(p, AfterRelease(req[p]))
           ELSE Settle(p, [req[p] EXCEPT !.call.pc = "save",
                                        !.call.inventory = Released(inventory[k][1], c.quantity)])
    /\ UNCHANGED <<stockVars, officeVars>>

\* release_reserved_stock: inventory.save(), and True
ReleaseReservedStockSave(p) ==
    /\ InCall(p, "release_reserved_stock", "save")
    /\ LET c == req[p].call
           k == <<c.warehouse_id, c.product_id>>
       IN  /\ inventory' = [inventory EXCEPT ![k] = Some(c.inventory)]
           /\ dirty' = Touched(p, k)
    /\ Settle(p, AfterRelease(req[p]))
    /\ UNCHANGED <<movements, transfers, transits, snap, raced, officeVars>>

\* PATCH /sales/{sale_id}/cancel: Sale.get and the guards, then update_stock
\* for the first line.  since and quiet are history, as in CreateSale.
CancelSale(p, s) ==
    /\ Free(p)
    /\ served < MaxSaleRequests
    /\ IF s > Len(sales)
       THEN Start(p, Idle(Response("cancel_sale", "NotFound", s)))
       ELSE IF sales[s].status = "cancelled"
       THEN Start(p, Idle(Response("cancel_sale", "InvalidState", s)))
       ELSE Start(p,
                [op |-> "cancel_sale", id |-> s, pc |-> "restore", sale |-> sales[s], i |-> 1,
                 call |-> RestoreCall(sales[s], s, 1),
                 since |-> served + 1, quiet |-> Quiet(p)])
    /\ UNCHANGED <<stockVars, officeVars>>

\* sale.status = "cancelled"; sale.save()
CancelSaleSave(p) ==
    /\ At(p, "cancel_sale", "save")
    /\ sales' = [sales EXCEPT ![req[p].id] = [req[p].sale EXCEPT !.status = "cancelled"]]
    /\ Settle(p, Idle(Response("cancel_sale", "ok", req[p].id)))
    /\ UNCHANGED <<stockVars, cash_cuts, cash_movements, expenses, incidents, closings, sold>>

\* Requests the clients send (SaleCreate: at least one detail, quantity > 0).
\* "p0" is no product and "w0" no warehouse.
SaleDetailInputs ==
    {<<SaleLine("p1", q)>> : q \in 1..MaxQty}
    \cup {<<SaleLine("p1", 1), SaleLine(x, q)>> : x \in {"p1", "p2"}, q \in 1..MaxQty}
    \cup {<<SaleLine("p1", 1), SaleLine("p0", 1)>>}

SaleInputs ==
    {<<"w1", d>> : d \in SaleDetailInputs} \cup {<<"w0", <<SaleLine("p1", 1)>>>>}

SaleIds == 1..(MaxSales + 1)

\* The requests of a point of sale.  cancel_sale's update_stock calls find the
\* balance document the sale was reserved from (documents are never deleted),
\* so create_or_update_inventory never inserts here.
NextSale ==
    \/ \E p \in Procs : UpdateStockGet(p)
    \/ \E p \in Procs : UpdateStockSave(p)
    \/ \E p \in Procs : UpdateStockInsert(p)
    \/ \E p \in Procs, sale_data \in SaleInputs : CreateSale(p, sale_data[1], sale_data[2])
    \/ \E p \in Procs : CreateSaleCheck(p)
    \/ \E p \in Procs : ReserveStockGet(p)
    \/ \E p \in Procs : ReserveStockSave(p)
    \/ \E p \in Procs, n \in SaleNumbers : CreateSaleNumber(p, n)
    \/ \E p \in Procs : CreateSaleInsert(p)
    \/ \E p \in Procs : ConfirmSaleStockGet(p)
    \/ \E p \in Procs : ConfirmSaleStockSave(p)
    \/ \E p \in Procs : ConfirmSaleStockInsert(p)
    \/ \E p \in Procs : ReleaseReservedStockGet(p)
    \/ \E p \in Procs : ReleaseReservedStockSave(p)
    \/ \E p \in Procs, s \in SaleIds : CancelSale(p, s)
    \/ \E p \in Procs : CancelSaleSave(p)

SpecSale == Init /\ [][NextSale]_vars

\* ---------------------------------------------------------------- one request at a time
\* The server with a single request in service: every operation ends before
\* the next begins.
Serving == {"r1"}

NextSerial ==
    \/ \E p \in Serving : UpdateStockGet(p)
    \/ \E p \in Serving : UpdateStockCreate(p)
    \/ \E p \in Serving : UpdateStockSave(p)
    \/ \E p \in Serving : UpdateStockInsert(p)
    \/ \E p \in Serving, k \in LedgerPairs, q \in 0..MaxQty, ty \in LedgerTypes : UpdateStock(p, k, q, ty)
    \/ \E p \in Serving, k \in AdjustInputs, q \in 0..MaxQty : AdjustInventory(p, k, q)
    \/ \E p \in Serving, sale_data \in SaleInputs : CreateSale(p, sale_data[1], sale_data[2])
    \/ \E p \in Serving : CreateSaleCheck(p)
    \/ \E p \in Serving : ReserveStockGet(p)
    \/ \E p \in Serving : ReserveStockSave(p)
    \/ \E p \in Serving, n \in SaleNumbers : CreateSaleNumber(p, n)
    \/ \E p \in Serving : CreateSaleInsert(p)
    \/ \E p \in Serving : ConfirmSaleStockGet(p)
    \/ \E p \in Serving : ConfirmSaleStockSave(p)
    \/ \E p \in Serving : ConfirmSaleStockInsert(p)
    \/ \E p \in Serving : ReleaseReservedStockGet(p)
    \/ \E p \in Serving : ReleaseReservedStockSave(p)
    \/ \E p \in Serving, s \in SaleIds : CancelSale(p, s)
    \/ \E p \in Serving : CancelSaleSave(p)
    \/ \E p \in Serving, route \in RouteInputs, details \in DetailInputs : CreateTransfer(p, route, details)
    \/ \E p \in Serving : CreateTransferCheck(p)
    \/ \E p \in Serving : CreateTransferInsert(p)
    \/ \E p \in Serving, t \in TransferIds : ApproveTransfer(p, t)
    \/ \E p \in Serving : ApproveTransferCheck(p)
    \/ \E p \in Serving : ApproveTransferSave(p)
    \/ \E p \in Serving, t \in TransferIds : DispatchTransfer(p, t)
    \/ \E p \in Serving : DispatchTransferSave(p)
    \/ \E p \in Serving : DispatchTransferTransit(p)
    \/ \E p \in Serving, t \in TransferIds, rd \in ReceivedInputs : ReceiveTransfer(p, t, rd)
    \/ \E p \in Serving : ReceiveTransferSave(p)
    \/ \E p \in Serving : ReceiveTransferTransit(p)
    \/ \E p \in Serving, t \in TransferIds : CancelTransfer(p, t)
    \/ \E p \in Serving : CancelTransferSave(p)

SpecSerial == Init /\ [][NextSerial]_vars

\* ---------------------------------------------------------------- expenses
ExpenseRef(e) == <<"operational_expenses", e>>

\* The frame of a running register_cash_movement call.
RegisterCall(warehouse_id, movement_type, concept, amount, reference_id, reference_type) ==
    [fn |-> "register_cash_movement",
     pc |-> "find",
     warehouse_id |-> warehouse_id,
     movement_type |-> movement_type,
     concept |-> concept,
     amount |-> amount,
     reference_id |-> reference_id,
     reference_type |-> reference_type,
     current_cut |-> None]

\* OperationalExpense.get and the guards of approve_expense and reject_expense:
\* the error answered, "none" when the handler goes on.
ExpenseGuard(e) ==
    IF e > Len(expenses) THEN "NotFound"
    ELSE IF expenses[e].status # "pending" THEN "InvalidState"
    ELSE "none"

\* PATCH /finances/expenses/{expense_id}/approve, up to expense.save()
ApproveExpense(p, e) ==
    /\ Free(p)
    /\ LET g == ExpenseGuard(e)
       IN  IF g # "none"
           THEN Start(p, Idle(Response("approve_expense", g, e)))
           ELSE Start(p,
                    [op |-> "approve_expense", id |-> e, pc |-> "save", call |-> NoCall,
                     expense |-> [expenses[e] EXCEPT !.status = "approved"]])
    /\ UNCHANGED <<stockVars, officeVars>>

\* A variant of approve_expense that registers the movement as inbound.
ApprovalCallInbound(expense, e) ==
    RegisterCall(expense.warehouseId, "inbound", "operational_expense", expense.amount,
                 Some(ExpenseRef(e)), Some("expense"))

\* approve_expense, "Register cash movement": the call's arguments.
ApprovalCall(expense, e) ==
    RegisterCall(expense.warehouseId, "outbound", "operational_expense", expense.amount,
                 Some(ExpenseRef(e)), Some("expense"))

\* expense.save(), then the call of register_cash_movement
ApproveExpenseSave(p) ==
    /\ At(p, "approve_expense", "save")
    /\ expenses' = [expenses EXCEPT ![req[p].id] = req[p].expense]
    /\ Settle(p, [req[p] EXCEPT !.pc = "register", !.call = ApprovalCall(req[p].expense, req[p].id)])
    /\ UNCHANGED <<stockVars, cash_cuts, cash_movements, sales, incidents, closings, sold>>

\* A variant of get_current_cut that looks for the cut in every warehouse.
CurrentCutsAnywhere(warehouse_id) ==
    {c \in 1..Len(cash_cuts) : cash_cuts[c].status = "open"}

\* get_current_cut: CashCut.find_one({warehouseId, status: "open"}) returns
\* one of the documents that match (no sort is given), None when none does.
CurrentCuts(warehouse_id) ==
    OpenCuts(warehouse_id)

\* register_cash_movement, "Get current cut"
RegisterCashMovementFind(p) ==
    /\ InCall(p, "register_cash_movement", "find")
    /\ LET found == CurrentCuts(req[p].call.warehouse_id)
       IN  IF found = {}
           THEN Settle(p, [req[p] EXCEPT !.call.pc = "insert", !.call.current_cut = None])
           ELSE \E c \in found :
                    Settle(p, [req[p] EXCEPT !.call.pc = "insert", !.call.current_cut = Some(c)])
    /\ UNCHANGED <<stockVars, officeVars>>

\* register_cash_movement, "Create movement" and movement.insert(); the
\* endpoint then answers.
RegisterCashMovementInsert(p) ==
    /\ InCall(p, "register_cash_movement", "insert")
    /\ LET c == req[p].call
       IN  cash_movements' = Append(cash_movements,
                CashMovement(c.warehouse_id, c.current_cut, c.movement_type, c.concept, c.amount,
                             c.reference_id, c.reference_type))
    /\ Settle(p, Idle(Response(req[p].op, "ok", req[p].id)))
    /\ UNCHANGED <<stockVars, cash_cuts, expenses, sales, incidents, closings, sold>>

\* PATCH /finances/expenses/{expense_id}/reject, up to expense.save()
RejectExpense(p, e) ==
    /\ Free(p)
    /\ LET g == ExpenseGuard(e)
       IN  IF g # "none"
           THEN Start(p, Idle(Response("reject_expense", g, e)))
           ELSE Start(p,
                    [op |-> "reject_expense", id |-> e, pc |-> "save", call |-> NoCall,
                     expense |-> [expenses[e] EXCEPT !.status = "rejected"]])
    /\ UNCHANGED <<stockVars, officeVars>>

\* expense.save(), and the response
RejectExpenseSave(p) ==
    /\ At(p, "reject_expense", "save")
    /\ expenses' = [expenses EXCEPT ![req[p].id] = req[p].expense]
    /\ Settle(p, Idle(Response("reject_expense", "ok", req[p].id)))
    /\ UNCHANGED <<stockVars, cash_cuts, cash_movements, sales, incidents, closings, sold>>

\* The expenses waiting for approval when the cash desk opens: two of
\* warehouse w1 (an expense is created pending).
PendingExpenses ==
    <<OperationalExpense("w1", CutDay, 1, "pending"),
      OperationalExpense("w1", CutDay, MaxAmount, "pending")>>

ExpenseIds == 1..(Len(PendingExpenses) + 1)

InitExpense ==
    /\ Seeded(0)
    /\ Fresh
    /\ sales = << >>
    /\ expenses = PendingExpenses

NextExpense ==
    \/ \E p \in Procs, w \in Warehouses : OpenCashCut(p, w, CutDay, MaxAmount)
    \/ \E p \in Procs : OpenCashCutFind(p)
    \/ \E p \in Procs : OpenCashCutInsert(p)
    \/ \E p \in Procs : OpenCashCutMovement(p)
    \/ \E p \in Procs, c \in 1..MaxCuts : CloseCashCut(p, c, MaxAmount)
    \/ \E p \in Procs : CloseCashCutSales(p)
    \/ \E p \in Procs : CloseCashCutExpenses(p)
    \/ \E p \in Procs, e \in ExpenseIds : ApproveExpense(p, e)
    \/ \E p \in Procs : ApproveExpenseSave(p)
    \/ \E p \in Procs : RegisterCashMovementFind(p)
    \/ \E p \in Procs : RegisterCashMovementInsert(p)
    \/ \E p \in Procs, e \in ExpenseIds : RejectExpense(p, e)
    \/ \E p \in Procs : RejectExpenseSave(p)

SpecExpense == InitExpense /\ [][NextExpense]_vars

\* ---------------------------------------------------------------- dispatch desk
\* A transfer as create_transfer inserted it and approve_transfer saved it.
ApprovedTransfer(details) ==
    [source_warehouse_id |-> "w1",
     destination_warehouse_id |-> "w2",
     status |-> "approved",
     details |-> [i \in 1..Len(details) |->
                    TransferDetail(details[i].product_id, details[i].requested_quantity)]]

\* The approved transfers waiting at the dispatch desk of w1 when (w1, p1)
\* holds seed: two transfers of the same quantity of p1, or one transfer of
\* two lines.  create_transfer and approve_transfer check each line against
\* the available quantity and reserve nothing, so every line passed with
\* requested_quantity <= seed.
ApprovedStocks(seed) ==
    {<<ApprovedTransfer(<<[product_id |-> "p1", requested_quantity |-> q]>>),
       ApprovedTransfer(<<[product_id |-> "p1", requested_quantity |-> q]>>)>> : q \in 1..seed}
    \cup {<<ApprovedTransfer(<<[product_id |-> "p1", requested_quantity |-> 1],
                               [product_id |-> x, requested_quantity |-> 1]>>)>> : x \in Products}

\* The transfer ids the dispatch requests name; the last is no transfer.
ApprovedIds == 1..3

InitDispatch ==
    /\ \E seed \in 1..MaxQty :
            /\ Seeded(seed)
            /\ transfers \in ApprovedStocks(seed)
    /\ snap = [t \in 1..Len(transfers) |-> [k \in Pairs |-> Available(k)]]
    /\ transits = << >>
    /\ req = [p \in Procs |-> NoRequest]
    /\ out = NoResponse
    /\ served = 0
    /\ dirty = {}
    /\ raced = {}
    /\ cash_cuts = << >>
    /\ cash_movements = << >>
    /\ expenses = << >>
    /\ sales = << >>
    /\ incidents = << >>
    /\ closings = << >>
    /\ sold = << >>

\* The dispatch requests and their ledger calls.  The source pairs have a
\* balance document, so create_or_update_inventory never inserts here.
NextDispatch ==
    \/ \E p \in Procs : UpdateStockGet(p)
    \/ \E p \in Procs : UpdateStockSave(p)
    \/ \E p \in Procs : UpdateStockInsert(p)
    \/ \E p \in Procs, t \in ApprovedIds : DispatchTransfer(p, t)
    \/ \E p \in Procs : DispatchTransferSave(p)
    \/ \E p \in Procs : DispatchTransferTransit(p)

SpecDispatch == InitDispatch /\ [][NextDispatch]_vars

\* ---------------------------------------------------------------- properties: stock
\* The movements a transfer posted on a pair, by type and reference type.
Postings(t, k, movement_type, reference_type) ==
    {n \in 1..Len(movements) :
        /\ movements[n].reference_id = Some(TransferRef(t))
        /\ movements[n].reference_type = Some(reference_type)
        /\ movements[n].movement_type = movement_type
        /\ movements[n].warehouse_id = k[1]
        /\ movements[n].product_id = k[2]}

SourcePair(t, i) == <<transfers[t].source_warehouse_id, transfers[t].details[i].product_id>>

DestinationPair(t, i) == <<transfers[t].destination_warehouse_id, transfers[t].details[i].product_id>>

\* No other operation wrote the transfer's pairs since it was created, and its
\* own requests ran one after the other.
Undisturbed(t) ==
    /\ t \notin dirty
    /\ t \notin raced

\* The line was credited to the destination exactly once.
ReceivedOnce(t, i) ==
    Cardinality(Postings(t, DestinationPair(t, i), "transfer_inbound", "transfer")) = 1

\* C1: every balance document has available, reserved, outbound-transit and
\* inbound-transit quantities that are all >= 0, in every reachable state.
NonNegativeBalances ==
    \A k \in Pairs :
        inventory[k] # None =>
            /\ inventory[k][1].available_quantity >= 0
            /\ inventory[k][1].reserved_quantity >= 0
            /\ inventory[k][1].outbound_transit_quantity >= 0
            /\ inventory[k][1].inbound_transit_quantity >= 0

LegalEdges ==
    {<<"pending", "approved">>, <<"pending", "rejected">>, <<"approved", "in_transit">>,
     <<"in_transit", "completed">>, <<"pending", "cancelled">>, <<"approved", "cancelled">>,
     <<"in_transit", "cancelled">>}

\* C3: every step that changes a transfer's stored status follows a legal
\* edge, so a completed, rejected or cancelled transfer keeps its status.
TransferStatusEdges ==
    [][\A t \in 1..Len(transfers) :
            transfers'[t].status # transfers[t].status
                => <<transfers[t].status, transfers'[t].status>> \in LegalEdges]_vars

\* C4: when receive_transfer has answered ok for an undisturbed transfer whose
\* lines were all received once at their sent quantity, each line's source
\* balance is the balance at creation minus the requested quantity and its
\* destination balance is the balance at creation plus the requested quantity.
TransferConservation ==
    \A t \in 1..Len(transfers) :
        (/\ out = Response("receive_transfer", "ok", t)
         /\ Undisturbed(t)
         /\ \A i \in 1..Len(transfers[t].details) :
                /\ transfers[t].details[i].received_quantity = transfers[t].details[i].sent_quantity
                /\ ReceivedOnce(t, i))
        => \A i \in 1..Len(transfers[t].details) :
                /\ Available(SourcePair(t, i))
                     = snap[t][SourcePair(t, i)] - transfers[t].details[i].requested_quantity
                /\ Available(DestinationPair(t, i))
                     = snap[t][DestinationPair(t, i)] + transfers[t].details[i].requested_quantity

ConservationCase ==
    \E t \in 1..Len(transfers) :
        /\ out = Response("receive_transfer", "ok", t)
        /\ Undisturbed(t)
        /\ Len(transfers[t].details) = 2
        /\ \A i \in 1..Len(transfers[t].details) :
                /\ transfers[t].details[i].received_quantity = transfers[t].details[i].sent_quantity
                /\ ReceivedOnce(t, i)

\* C5: when receive_transfer has answered ok for an undisturbed transfer, the
\* transfer is completed and every line received once at quantity r, sent at s,
\* has discrepancy r - s when r # s and none when r = s, its destination
\* balance is up by r and its source balance is down by s.
ReceiveDiscrepancy ==
    \A t \in 1..Len(transfers) :
        (/\ out = Response("receive_transfer", "ok", t)
         /\ Undisturbed(t))
        => /\ transfers[t].status = "completed"
           /\ \A i \in 1..Len(transfers[t].details) :
                LET d == transfers[t].details[i]
                IN  (d.received_quantity # None /\ ReceivedOnce(t, i)) =>
                        /\ d.sent_quantity # None
                        /\ d.discrepancy =
                                IF d.received_quantity[1] # d.sent_quantity[1]
                                THEN Some(d.received_quantity[1] - d.sent_quantity[1])
                                ELSE None
                        /\ Available(DestinationPair(t, i))
                             = snap[t][DestinationPair(t, i)] + d.received_quantity[1]
                        /\ Available(SourcePair(t, i))
                             = snap[t][SourcePair(t, i)] - d.sent_quantity[1]

DiscrepancyCase ==
    \E t \in 1..Len(transfers) :
        /\ out = Response("receive_transfer", "ok", t)
        /\ Undisturbed(t)
        /\ \E i \in 1..Len(transfers[t].details) :
                /\ ReceivedOnce(t, i)
                /\ transfers[t].details[i].sent_quantity = Some(2)
                /\ transfers[t].details[i].received_quantity = Some(1)
                /\ transfers[t].details[i].discrepancy = Some(-1)

\* C6: when cancel_transfer has answered ok for an undisturbed transfer that
\* was dispatched, the transfer is cancelled and every line has exactly one
\* inbound movement of reference type cancelled_transfer, for its sent
\* quantity, on the source pair, whose balance is back at its value at creation.
CancelRestoresSource ==
    \A t \in 1..Len(transfers) :
        (/\ out = Response("cancel_transfer", "ok", t)
         /\ Undisturbed(t)
         /\ \A i \in 1..Len(transfers[t].details) : Restorable(transfers[t].details[i]))
        => /\ transfers[t].status = "cancelled"
           /\ \A i \in 1..Len(transfers[t].details) :
                /\ Cardinality(Postings(t, SourcePair(t, i), "inbound", "cancelled_transfer")) = 1
                /\ \A n \in Postings(t, SourcePair(t, i), "inbound", "cancelled_transfer") :
                        movements[n].quantity = transfers[t].details[i].sent_quantity[1]
                /\ Available(SourcePair(t, i)) = snap[t][SourcePair(t, i)]

CancelInTransitCase ==
    \E t \in 1..Len(transfers) :
        /\ out = Response("cancel_transfer", "ok", t)
        /\ Undisturbed(t)
        /\ Len(transfers[t].details) = 2
        /\ \A i \in 1..Len(transfers[t].details) : Restorable(transfers[t].details[i])

\* The step in which request slot p's update_stock call reads the balance of
\* its pair (0 for the record it has just created) and applies the policy.
PolicyStep(p) ==
    /\ Busy(p)
    /\ req[p].call.fn = "update_stock"
    /\ LET k == <<req[p].call.warehouse_id, req[p].call.product_id>>
       IN  \/ req[p].call.pc = "get" /\ inventory[k] # None
           \/ req[p].call.pc = "create" /\ inventory[k] = None
    /\ req'[p] # req[p]

\* C7: an update_stock call of type outbound or transfer_outbound whose
\* quantity exceeds the pair's available quantity ends with InsufficientStock,
\* and its step changes no available quantity, rewrites no balance record and
\* appends no movement.
OutboundBeyondStockFails ==
    [][\A p \in Procs :
            (/\ PolicyStep(p)
             /\ req[p].call.movement_type \in {"outbound", "transfer_outbound"}
             /\ req[p].call.quantity > Available(<<req[p].call.warehouse_id, req[p].call.product_id>>))
            => /\ out' = Response(req[p].op, "InsufficientStock", req[p].id)
               /\ ~Busy(p)'
               /\ movements' = movements
               /\ \A k \in Pairs : Available(k)' = Available(k)
               /\ \A k \in Pairs : inventory[k] # None => inventory'[k] = inventory[k]]_vars

OutboundBeyondStockCase ==
    /\ out = Response("update_stock", "InsufficientStock", 0)
    /\ Len(movements) > 2
    /\ Available(<<"w1", "p1">>) = 1

\* ---------------------------------------------------------------- properties: cash cuts
\* C2: each warehouse has at most one cash cut with status open, in every
\* reachable state.
OneOpenCutPerWarehouse ==
    \A w \in Warehouses : Cardinality(OpenCuts(w)) <= 1

\* C8: once close_cash_cut has answered for a cut, every later close_cash_cut
\* call on that cut answers InvalidState.
SecondCloseRefused ==
    \A c \in 1..Len(cash_cuts) :
        (out.op = "close_cash_cut" /\ out.id = c /\ closings[c] >= 2)
            => out.result = "InvalidState"

\* C9: when close_cash_cut has answered for a cut it found open, the answer
\* is ok and the cut is closed with expected_final_amount = initial amount +
\* the day's non-cancelled sales - the day's approved expenses and difference =
\* actual_final_amount - expected_final_amount.
CloseStoresTotals ==
    \A c \in 1..Len(cash_cuts) :
        (out.op = "close_cash_cut" /\ out.id = c /\ out.result # "InvalidState")
            => /\ out.result = "ok"
               /\ cash_cuts[c].status = "closed"
               /\ cash_cuts[c].expectedFinalAmount =
                    cash_cuts[c].initialAmount
                    + calculate_daily_sales_total(cash_cuts[c].warehouseId, cash_cuts[c].cutDate).total_sales
                    - SumOf(daily_expenses(cash_cuts[c].warehouseId, cash_cuts[c].cutDate), "amount")
               /\ cash_cuts[c].actualFinalAmount # None
               /\ cash_cuts[c].difference =
                    Some(cash_cuts[c].actualFinalAmount[1] - cash_cuts[c].expectedFinalAmount)

\* ---------------------------------------------------------------- properties: incidents
\* C10: every step that changes an incident's stored status follows the
\* allow-list of change_incident_status.
IncidentStatusEdges ==
    [][\A i \in 1..Len(incidents) :
            incidents'[i].status # incidents[i].status
                => incidents'[i].status \in valid_transitions(incidents[i].status)]_vars

\* ---------------------------------------------------------------- properties: sales
\* The step in which request slot p's create_sale sends an error.
SaleFails(p) ==
    /\ req[p].op = "create_sale"
    /\ ~Busy(p)'
    /\ out'.op = "create_sale"
    /\ out'.result # "ok"

\* The request in slot p met no other request from its arrival to now.
RanAlone(p) ==
    /\ req[p].quiet
    /\ served = req[p].since

\* C11: a create_sale call that fails has stored no Sale, and when no other
\* request ran meanwhile every balance document is as it was before the call
\* and the movement log has not grown.
FailedSaleLeavesNoTrace ==
    [][\A p \in Procs :
            SaleFails(p) =>
                /\ req[p].sale = 0
                /\ RanAlone(p) => /\ inventory' = req[p].before
                                  /\ Len(movements') = req[p].mov0
                                  /\ sales' = sales]_vars

\* ---------------------------------------------------------------- properties: ledger
\* The movements of a pair, as positions in the log.
MovementsOf(k) ==
    {n \in 1..Len(movements) : movements[n].warehouse_id = k[1] /\ movements[n].product_id = k[2]}

\* order lists the movements of pair k so that each starts from the quantity
\* the one before it left (the first from 0) and the last leaves final.
SerialOrder(k, order, final) ==
    LET n == Cardinality(MovementsOf(k))
    IN  /\ {order[i] : i \in 1..n} = MovementsOf(k)
        /\ movements[order[1]].previous_quantity = 0
        /\ \A i \in 2..n : movements[order[i]].previous_quantity = movements[order[i - 1]].new_quantity
        /\ movements[order[n]].new_quantity = final

\* C12: once the update_stock calls have returned, the movements of every pair
\* can be put in a serial order that ends at the pair's available quantity: no
\* call's update is lost, whatever the interleaving.
NoLostUpdate ==
    (\A p \in Procs : ~Busy(p)) =>
        \A k \in Pairs :
            MovementsOf(k) # {} =>
                \E order \in [1..Cardinality(MovementsOf(k)) -> MovementsOf(k)] :
                    SerialOrder(k, order, Available(k))

\* The step in which request slot p's update_stock call saves the balance.
SaveStep(p) ==
    /\ InCall(p, "update_stock", "save")
    /\ req'[p] # req[p]

\* The step in which request slot p's update_stock call inserts its movement.
InsertStep(p) ==
    /\ InCall(p, "update_stock", "insert")
    /\ req'[p] # req[p]

CallPair(p) == <<req[p].call.warehouse_id, req[p].call.product_id>>

\* The quantity the movement types stand for, from the quantity read.
ByType(previous_quantity, quantity, movement_type) ==
    CASE movement_type \in {"inbound", "transfer_inbound"} -> previous_quantity + quantity
      [] movement_type \in {"outbound", "transfer_outbound"} -> previous_quantity - quantity
      [] movement_type = "adjustment" -> quantity

\* C13: update_stock reads the pair's available quantity (0 for a new record)
\* and saves previous + quantity for inbound and transfer_inbound, previous -
\* quantity for outbound and transfer_outbound and quantity itself for
\* adjustment; with any other movement type it ends with InvalidMovementType
\* and changes no available quantity and no movement.
NewQuantityByType ==
    [][\A p \in Procs :
            /\ (PolicyStep(p) /\ req[p].call.movement_type \notin MovementTypes)
                    => /\ out' = Response(req[p].op, "InvalidMovementType", req[p].id)
                       /\ ~Busy(p)'
                       /\ movements' = movements
                       /\ \A k \in Pairs : Available(k)' = Available(k)
            /\ (PolicyStep(p) /\ Busy(p)' /\ req'[p].call.fn = "update_stock")
                    => /\ req[p].call.movement_type \in MovementTypes
                       /\ req'[p].call.previous_quantity = Available(CallPair(p))
            /\ SaveStep(p)
                    => /\ req[p].call.movement_type \in MovementTypes
                       /\ Available(CallPair(p))' =
                            ByType(req[p].call.previous_quantity, req[p].call.quantity,
                                   req[p].call.movement_type)]_vars

\* An adjustment set a balance of 2 to 1, and a call with an unknown movement
\* type was refused.
NewQuantityByTypeCase ==
    /\ out = Response("update_stock", "InvalidMovementType", 0)
    /\ \E n \in 1..Len(movements) :
            /\ movements[n].movement_type = "adjustment"
            /\ movements[n].previous_quantity = 2
            /\ movements[n].quantity = 1
            /\ movements[n].new_quantity = 1
    /\ Available(<<"w1", "p1">>) = 1

\* C14: an update_stock call takes previous_quantity from the available
\* quantity it reads, leaves new_quantity as the pair's available quantity when
\* it saves, and ends ok in the step that appends one movement carrying both;
\* every step leaves the movements already written in place.
MovementMatchesBalance ==
    [][/\ Len(movements') >= Len(movements)
       /\ SubSeq(movements', 1, Len(movements)) = movements
       /\ \A p \in Procs :
            /\ (PolicyStep(p) /\ Busy(p)' /\ req'[p].call.fn = "update_stock")
                    => req'[p].call.previous_quantity = Available(CallPair(p))
            /\ SaveStep(p)
                    => /\ Available(CallPair(p))' = req[p].call.new_quantity
                       /\ req'[p].call.previous_quantity = req[p].call.previous_quantity
                       /\ movements' = movements
            /\ InsertStep(p)
                    => /\ Len(movements') = Len(movements) + 1
                       /\ movements'[Len(movements')].warehouse_id = req[p].call.warehouse_id
                       /\ movements'[Len(movements')].product_id = req[p].call.product_id
                       /\ movements'[Len(movements')].quantity = req[p].call.quantity
                       /\ movements'[Len(movements')].previous_quantity = req[p].call.previous_quantity
                       /\ movements'[Len(movements')].new_quantity = req[p].call.new_quantity
            /\ (req[p].op = "update_stock" /\ ~Busy(p)' /\ out'.result = "ok")
                    => InsertStep(p)]_vars

\* Two calls have succeeded, the second an outbound movement from 2 to 1.
MovementMatchesBalanceCase ==
    /\ out = Response("update_stock", "ok", 0)
    /\ Len(movements) = 4
    /\ movements[4].movement_type = "outbound"
    /\ movements[4].previous_quantity = 2
    /\ movements[4].new_quantity = 1
    /\ Available(<<"w1", "p1">>) = 1

\* The movements of pair k in the order they were appended.
LogOf(k) == SelectSeq(movements, LAMBDA m : m.warehouse_id = k[1] /\ m.product_id = k[2])

\* C15: with one operation at a time, after each operation and for every pair
\* with a movement, available + reserved is the new_quantity of the pair's
\* last movement, and each movement's previous_quantity is the new_quantity of
\* the pair's movement before it (0 for the first).
LogRebuildsBalances ==
    (\A p \in Procs : ~Busy(p)) =>
        \A k \in Pairs :
            LET log == LogOf(k)
            IN  log # << >> =>
                    /\ inventory[k] # None
                    /\ inventory[k][1].available_quantity + inventory[k][1].reserved_quantity
                            = log[Len(log)].new_quantity
                    /\ log[1].previous_quantity = 0
                    /\ \A i \in 2..Len(log) : log[i].previous_quantity = log[i - 1].new_quantity

\* A sale of two lines of one product, an adjustment and the sale's
\* cancellation left three more movements on the pair.
LogRebuildsBalancesCase ==
    /\ \A p \in Procs : ~Busy(p)
    /\ Len(LogOf(<<"w1", "p1">>)) >= 4
    /\ \E n \in 1..Len(movements) : movements[n].reference_type = Some("sale")
    /\ \E n \in 1..Len(movements) : movements[n].reference_type = Some("cancelled_sale")

\* ---------------------------------------------------------------- properties: sale effects
RECURSIVE SoldQuantity(_, _)
\* The sum of the quantities of the lines of one product.
SoldQuantity(details, product_id) ==
    IF details = << >> THEN 0
    ELSE (IF Head(details).product_id = product_id THEN Head(details).quantity ELSE 0)
         + SoldQuantity(Tail(details), product_id)

\* Sale s was created by a request that met no other request, and no request
\* has arrived since.
JustSold(s) ==
    /\ sold[s].alone
    /\ served = sold[s].since

\* The movements appended after the first n are one per line of the sale, in
\* the order of the lines, of the given type and reference type.
PostedPerLine(s, n, movement_type, reference_type) ==
    /\ Len(movements) = n + Len(sales[s].details)
    /\ \A i \in 1..Len(sales[s].details) :
            /\ movements[n + i].movement_type = movement_type
            /\ movements[n + i].warehouse_id = sales[s].warehouse_id
            /\ movements[n + i].product_id = sales[s].details[i].product_id
            /\ movements[n + i].quantity = sales[s].details[i].quantity
            /\ movements[n + i].reference_id = Some(SaleRef(s))
            /\ movements[n + i].reference_type = Some(reference_type)

\* C16: after a create_sale that ran without interference and succeeded, every
\* pair of the sale's warehouse has its available quantity reduced by the sum
\* of the product's line quantities and its reserved quantity as before, every
\* other document is as before, the log has one more outbound movement of
\* reference type sale per line, and the stored Sale is completed.
SaleDebitsStock ==
    \A s \in 1..Len(sold) :
        JustSold(s) =>
            /\ out = Response("create_sale", "ok", s)
            /\ sales[s].status = "completed"
            /\ PostedPerLine(s, sold[s].mov0, "outbound", "sale")
            /\ \A k \in Pairs :
                    IF k[1] = sales[s].warehouse_id /\ SoldQuantity(sales[s].details, k[2]) > 0
                    THEN /\ inventory[k] # None
                         /\ sold[s].before[k] # None
                         /\ inventory[k][1].available_quantity =
                                sold[s].before[k][1].available_quantity
                                    - SoldQuantity(sales[s].details, k[2])
                         /\ inventory[k][1].reserved_quantity = sold[s].before[k][1].reserved_quantity
                    ELSE inventory[k] = sold[s].before[k]

\* A sale with two lines of the same product has just been stored.
SaleDebitsStockCase ==
    \E s \in 1..Len(sold) :
        /\ JustSold(s)
        /\ Len(sales[s].details) = 2
        /\ SoldQuantity(sales[s].details, "p1") = 2

\* Sale s was created by a request that met no other request, and the one
\* request that has arrived since is the cancel_sale that has just answered ok.
JustCancelled(s) ==
    /\ sold[s].alone
    /\ served = sold[s].since + 1
    /\ out = Response("cancel_sale", "ok", s)

\* C17: when cancel_sale has answered ok for a sale and nothing else ran since
\* the sale began, the sale is cancelled, the log ends with one inbound movement
\* of reference type cancelled_sale per line for the line's quantity, and
\* every balance document is as it was before the sale.
CancelRestoresSale ==
    \A s \in 1..Len(sold) :
        JustCancelled(s) =>
            /\ sales[s].status = "cancelled"
            /\ PostedPerLine(s, sold[s].mov0 + Len(sales[s].details), "inbound", "cancelled_sale")
            /\ inventory = sold[s].before

\* A sale of two lines on two products has just been cancelled.
CancelRestoresSaleCase ==
    \E s \in 1..Len(sold) :
        /\ JustCancelled(s)
        /\ Len(sales[s].details) = 2
        /\ SoldQuantity(sales[s].details, "p2") = 1

\* ---------------------------------------------------------------- properties: dispatch
\* The GoodsInTransit records of a transfer.
TransitsOf(t) == {n \in 1..Len(transits) : transits[n].transfer_id = t}

\* dispatch_transfer has answered ok for an undisturbed transfer.
JustDispatched(t) ==
    /\ out = Response("dispatch_transfer", "ok", t)
    /\ Undisturbed(t)

\* What a dispatch leaves: the transfer in_transit, every line sent and in
\* transit at its requested quantity and debited from the source by one
\* transfer_outbound movement, and one transit record, preparing.
DispatchEffects(t) ==
    /\ transfers[t].status = "in_transit"
    /\ \A i \in 1..Len(transfers[t].details) :
            /\ transfers[t].details[i].sent_quantity = Some(transfers[t].details[i].requested_quantity)
            /\ transfers[t].details[i].transit_quantity = transfers[t].details[i].requested_quantity
            /\ Cardinality(Postings(t, SourcePair(t, i), "transfer_outbound", "transfer")) = 1
            /\ \A n \in Postings(t, SourcePair(t, i), "transfer_outbound", "transfer") :
                    /\ movements[n].quantity = transfers[t].details[i].requested_quantity
                    /\ movements[n].new_quantity = movements[n].previous_quantity - movements[n].quantity
            /\ Available(SourcePair(t, i))
                    = snap[t][SourcePair(t, i)] - transfers[t].details[i].requested_quantity
    /\ Cardinality(TransitsOf(t)) = 1
    /\ \A n \in TransitsOf(t) : transits[n].transit_status = "preparing"

\* C18: a dispatch_transfer request is taken on only for a transfer it reads as
\* approved; for a transfer in any other status it answers InvalidState and
\* changes no balance, movement, transfer or transit record; and when it has
\* answered ok for an undisturbed transfer, the transfer is in_transit, every
\* line is sent and in transit at its requested quantity and debited from the
\* source by one transfer_outbound movement, and the transfer has one transit
\* record, with status preparing.
DispatchOnlyApproved ==
    [][/\ \A p \in Procs :
            (~Busy(p) /\ Busy(p)' /\ req'[p].op = "dispatch_transfer")
                => transfers[req'[p].id].status = "approved"
       /\ \A t \in 1..Len(transfers) :
            (/\ served' = served + 1
             /\ \A p \in Procs : Busy(p)' = Busy(p)
             /\ out'.op = "dispatch_transfer"
             /\ out'.id = t)
                => /\ transfers[t].status # "approved"
                   /\ out'.result = "InvalidState"
                   /\ UNCHANGED <<inventory, movements, transfers, transits>>
       /\ \A t \in 1..Len(transfers') : JustDispatched(t)' => DispatchEffects(t)']_vars

\* A transfer of two lines has just been dispatched.
DispatchOnlyApprovedCase ==
    \E t \in 1..Len(transfers) :
        /\ JustDispatched(t)
        /\ Len(transfers[t].details) = 2
        /\ Available(SourcePair(t, 1)) = 1

\* ---------------------------------------------------------------- properties: frame
\* A request that moves no goods: create, approve or reject, or the cancel of a
\* transfer read as pending or approved.
MovesNoGoods(r) ==
    \/ r.op \in {"create_transfer", "approve_transfer", "reject_transfer"}
    \/ /\ r.op = "cancel_transfer"
       /\ r.transfer.status \in {"pending", "approved"}

\* The step is taken by request slot p.
StepOf(p) == req'[p] # req[p]

\* The step is a request's arrival and answer in one.
AnsweredAtOnce ==
    /\ served' = served + 1
    /\ \A p \in Procs : Busy(p)' = Busy(p)

\* C19: no step of create_transfer, approve_transfer or reject_transfer, and
\* no step of a cancel_transfer on a transfer read as pending or approved,
\* changes a balance document or the movement log, whether the request ends
\* ok or with an error.
NoGoodsNoLedgerWrite ==
    [][/\ \A p \in Procs :
            (StepOf(p) /\ MovesNoGoods(IF Busy(p) THEN req[p] ELSE req'[p]))
                => UNCHANGED <<inventory, movements>>
       /\ (/\ AnsweredAtOnce
           /\ \/ out'.op \in {"create_transfer", "approve_transfer", "reject_transfer"}
              \/ /\ out'.op = "cancel_transfer"
                 /\ out'.id \in 1..Len(transfers)
                 /\ transfers[out'.id].status \in {"pending", "approved"})
                => UNCHANGED <<inventory, movements>>]_vars

\* A transfer of two lines that was never dispatched has just been cancelled,
\* and the ledger is as it was when the transfer was created.
NoGoodsNoLedgerWriteCase ==
    \E t \in 1..Len(transfers) :
        /\ out = Response("cancel_transfer", "ok", t)
        /\ Undisturbed(t)
        /\ Len(transfers[t].details) = 2
        /\ \A i \in 1..Len(transfers[t].details) : transfers[t].details[i].sent_quantity = None
        /\ Len(movements) = 2
        /\ \A k \in Pairs : Available(k) = snap[t][k]
        /\ served = 3

\* ---------------------------------------------------------------- properties: reservations
\* The step in which request slot p's call of fn is at pc.
CallStep(p, fn, pc) ==
    /\ InCall(p, fn, pc)
    /\ StepOf(p)

Total(doc) == doc.available_quantity + doc.reserved_quantity

\* The caller's locals after reserve_stock returned False: create_sale is in
\* its except block with "Could not reserve stock".
ReserveRefused(p) ==
    \/ ~Busy(p)' /\ out' = Response("create_sale", "ReserveFailed", 0)
    \/ Busy(p)' /\ req'[p].error = "ReserveFailed" /\ req'[p].reserved = req[p].reserved

\* C20: reserve_stock returns False, raising nothing and changing no document,
\* when the pair has no balance document or less available than the quantity;
\* otherwise it saves the document it read with the quantity moved from
\* available to reserved and returns True.  release_reserved_stock moves it
\* back.  Both save available + reserved as they read it.
ReserveFailsClosed ==
    [][\A p \in Procs :
        /\ CallStep(p, "reserve_stock", "get") =>
                /\ UNCHANGED <<inventory, movements, sales>>
                /\ IF \/ inventory[CallPair(p)] = None
                      \/ Available(CallPair(p)) < req[p].call.quantity
                   THEN ReserveRefused(p)
                   ELSE /\ Busy(p)'
                        /\ req'[p].call.fn = "reserve_stock"
                        /\ req'[p].error = "none"
                        /\ req'[p].call.inventory.available_quantity =
                                inventory[CallPair(p)][1].available_quantity - req[p].call.quantity
                        /\ req'[p].call.inventory.reserved_quantity =
                                inventory[CallPair(p)][1].reserved_quantity + req[p].call.quantity
                        /\ Total(req'[p].call.inventory) = Total(inventory[CallPair(p)][1])
        /\ CallStep(p, "release_reserved_stock", "get") =>
                /\ UNCHANGED <<inventory, movements, sales>>
                /\ (Busy(p)' /\ req'[p].call.fn = "release_reserved_stock" /\ req'[p].call.pc = "save")
                        => /\ inventory[CallPair(p)] # None
                           /\ Total(req'[p].call.inventory) = Total(inventory[CallPair(p)][1])
                           /\ req'[p].call.inventory.available_quantity =
                                inventory[CallPair(p)][1].available_quantity + req[p].call.quantity
        /\ (CallStep(p, "reserve_stock", "save") \/ CallStep(p, "release_reserved_stock", "save")) =>
                /\ inventory' = [inventory EXCEPT ![CallPair(p)] = Some(req[p].call.inventory)]
                /\ UNCHANGED <<movements, sales>>
                /\ Total(inventory'[CallPair(p)][1]) = Total(req[p].call.inventory)
                /\ RanAlone(p) => Total(inventory'[CallPair(p)][1]) = Total(inventory[CallPair(p)][1])
        /\ CallStep(p, "reserve_stock", "save") => req'[p].reserved = req[p].i]_vars

\* A reservation was refused after the stock check had passed, with another
\* reservation held on the pair.
ReserveFailsClosedCase ==
    /\ out = Response("create_sale", "ReserveFailed", 0)
    /\ inventory[<<"w1", "p1">>][1].reserved_quantity > 0

\* ---------------------------------------------------------------- properties: confirmation
\* The caller's locals after confirm_sale_stock raised: create_sale is in its
\* except block, or has answered, with "Insufficient reserved stock".
ConfirmRaised(p) ==
    \/ ~Busy(p)' /\ out' = Response("create_sale", "InsufficientReserved", 0)
    \/ /\ Busy(p)'
       /\ req'[p].error = "InsufficientReserved"
       /\ req'[p].call.fn = "release_reserved_stock"

\* C21: confirm_sale_stock raises, changing no balance and no movement, when
\* the pair has no balance document or less reserved than the quantity;
\* otherwise it saves the document it read with reserved reduced by the
\* quantity and available as read, then appends one outbound movement of that
\* quantity that references the sale.  For a call that met no other request
\* the stored available quantity is the same before and after the save.
ConfirmReducesReserved ==
    [][\A p \in Procs :
        /\ CallStep(p, "confirm_sale_stock", "get") =>
                /\ UNCHANGED <<inventory, movements>>
                /\ IF \/ inventory[CallPair(p)] = None
                      \/ inventory[CallPair(p)][1].reserved_quantity < req[p].call.quantity
                   THEN ConfirmRaised(p)
                   ELSE /\ Busy(p)'
                        /\ req'[p].error = "none"
                        /\ req'[p].call.fn = "confirm_sale_stock"
                        /\ req'[p].call.pc = "save"
                        /\ req'[p].call.inventory.reserved_quantity =
                                inventory[CallPair(p)][1].reserved_quantity - req[p].call.quantity
                        /\ req'[p].call.inventory.available_quantity =
                                inventory[CallPair(p)][1].available_quantity
        /\ CallStep(p, "confirm_sale_stock", "save") =>
                /\ inventory' = [inventory EXCEPT ![CallPair(p)] = Some(req[p].call.inventory)]
                /\ movements' = movements
                /\ RanAlone(p) =>
                        /\ inventory'[CallPair(p)][1].available_quantity =
                                inventory[CallPair(p)][1].available_quantity
                        /\ inventory'[CallPair(p)][1].reserved_quantity =
                                inventory[CallPair(p)][1].reserved_quantity - req[p].call.quantity
        /\ CallStep(p, "confirm_sale_stock", "insert") =>
                /\ inventory' = inventory
                /\ Len(movements') = Len(movements) + 1
                /\ SubSeq(movements', 1, Len(movements)) = movements
                /\ LET m == movements'[Len(movements')]
                   IN  /\ m.movement_type = "outbound"
                       /\ m.warehouse_id = req[p].call.warehouse_id
                       /\ m.product_id = req[p].call.product_id
                       /\ m.quantity = req[p].call.quantity
                       /\ m.reference_id = Some(SaleRef(req[p].call.sale_id))
                       /\ m.reference_type = Some("sale")
                       /\ req[p].call.sale_id \in 1..Len(sales)]_vars

\* One sale was confirmed and posted its movement, and the confirmation of
\* another was refused for want of reserved stock.
ConfirmReducesReservedCase ==
    /\ out = Response("create_sale", "InsufficientReserved", 0)
    /\ \E n \in 1..Len(movements) : movements[n].reference_type = Some("sale")

\* ---------------------------------------------------------------- properties: opening a cut
\* The cash movements tied to cut c.
MovementsOfCut(c) ==
    {n \in 1..Len(cash_movements) : cash_movements[n].cashCutId = Some(c)}

\* C22: an open_cash_cut request that fails ends with NotFound on arrival (the
\* requests taken on name a warehouse that exists) or with InvalidState when it
\* finds an open cut of the warehouse, and creates no cut and no cash movement;
\* a request that finds none inserts one cut, open, with the given initial
\* amount, then one cash movement, inbound, "initial_fund", of that amount,
\* tied to the cut, and answers ok with that cut, which no other movement is
\* tied to.
OpenCutCreatesFund ==
    [][/\ (AnsweredAtOnce /\ out'.op = "open_cash_cut")
            => /\ out'.result = "NotFound"
               /\ UNCHANGED <<cash_cuts, cash_movements>>
       /\ (out'.op = "open_cash_cut" /\ out'.result # "ok")
            => /\ out'.result \in {"NotFound", "InvalidState"}
               /\ UNCHANGED <<cash_cuts, cash_movements>>
       /\ \A p \in Procs :
            /\ (~Busy(p) /\ Busy(p)' /\ req'[p].op = "open_cash_cut")
                    => /\ req'[p].warehouse_id \in Warehouses
                       /\ UNCHANGED <<cash_cuts, cash_movements>>
            /\ (At(p, "open_cash_cut", "find") /\ StepOf(p))
                    => /\ UNCHANGED <<cash_cuts, cash_movements>>
                       /\ IF OpenCuts(req[p].warehouse_id) # {}
                          THEN out' = Response("open_cash_cut", "InvalidState", 0)
                          ELSE Busy(p)' /\ req'[p].pc = "insert"
            /\ (At(p, "open_cash_cut", "insert") /\ StepOf(p))
                    => /\ Len(cash_cuts') = Len(cash_cuts) + 1
                       /\ SubSeq(cash_cuts', 1, Len(cash_cuts)) = cash_cuts
                       /\ cash_cuts'[Len(cash_cuts')].status = "open"
                       /\ cash_cuts'[Len(cash_cuts')].warehouseId = req[p].warehouse_id
                       /\ cash_cuts'[Len(cash_cuts')].initialAmount = req[p].initial_amount
                       /\ req'[p].id = Len(cash_cuts')
                       /\ req'[p].pc = "movement"
                       /\ cash_movements' = cash_movements
            /\ (At(p, "open_cash_cut", "movement") /\ StepOf(p))
                    => /\ cash_cuts' = cash_cuts
                       /\ Len(cash_movements') = Len(cash_movements) + 1
                       /\ SubSeq(cash_movements', 1, Len(cash_movements)) = cash_movements
                       /\ LET m == cash_movements'[Len(cash_movements')]
                          IN  /\ m.movementType = "inbound"
                              /\ m.concept = "initial_fund"
                              /\ m.amount = req[p].initial_amount
                              /\ m.warehouseId = req[p].warehouse_id
                              /\ m.cashCutId = Some(req[p].id)
                       /\ cash_cuts[req[p].id].warehouseId = req[p].warehouse_id
                       /\ cash_cuts[req[p].id].initialAmount = req[p].initial_amount
                       /\ out' = Response("open_cash_cut", "ok", req[p].id)
                       /\ \A c \in 1..Len(cash_cuts) :
                            c = req[p].id => Cardinality(MovementsOfCut(c)') = 1]_vars

\* A cut was opened with its fund, and a second opening for the warehouse was
\* refused.
OpenCutCreatesFundCase ==
    /\ out = Response("open_cash_cut", "InvalidState", 0)
    /\ Len(cash_cuts) = 1
    /\ cash_cuts[1].initialAmount = MaxAmount
    /\ Len(cash_movements) = 1
    /\ cash_movements[1].amount = MaxAmount
    /\ cash_movements[1].cashCutId = Some(1)

\* ---------------------------------------------------------------- properties: cash movements
\* C23: register_cash_movement changes no cash cut, reads the cut to tag (none
\* when the warehouse has no open cut, else a cut that is open and of that
\* warehouse when it is read) and always goes on to append exactly one cash
\* movement with that tag and the call's warehouse, type, concept and amount;
\* so every stored movement tied to a cut is tied to a cut of its own
\* warehouse, and the cut a movement is tied to is open when it is appended.
RegisterTagsOpenCut ==
    [][/\ \A p \in Procs :
            /\ CallStep(p, "register_cash_movement", "find") =>
                    /\ UNCHANGED <<cash_cuts, cash_movements>>
                    /\ Busy(p)'
                    /\ req'[p].call.fn = "register_cash_movement"
                    /\ req'[p].call.pc = "insert"
                    /\ IF OpenCuts(req[p].call.warehouse_id) = {}
                       THEN req'[p].call.current_cut = None
                       ELSE \E c \in 1..Len(cash_cuts) :
                                /\ req'[p].call.current_cut = Some(c)
                                /\ cash_cuts[c].status = "open"
                                /\ cash_cuts[c].warehouseId = req[p].call.warehouse_id
            /\ CallStep(p, "register_cash_movement", "insert") =>
                    /\ cash_cuts' = cash_cuts
                    /\ Len(cash_movements') = Len(cash_movements) + 1
                    /\ SubSeq(cash_movements', 1, Len(cash_movements)) = cash_movements
                    /\ LET m == cash_movements'[Len(cash_movements')]
                       IN  /\ m.cashCutId = req[p].call.current_cut
                           /\ m.warehouseId = req[p].call.warehouse_id
                           /\ m.movementType = req[p].call.movement_type
                           /\ m.concept = req[p].call.concept
                           /\ m.amount = req[p].call.amount
                           /\ m.cashCutId # None => cash_cuts[m.cashCutId[1]].status = "open"
                    /\ ~Busy(p)'
                    /\ out'.result = "ok"
       /\ \A n \in 1..Len(cash_movements') :
            cash_movements'[n].cashCutId # None =>
                /\ cash_movements'[n].cashCutId[1] \in 1..Len(cash_cuts')
                /\ cash_cuts'[cash_movements'[n].cashCutId[1]].warehouseId
                        = cash_movements'[n].warehouseId]_vars

\* One expense was charged while warehouse w1 had no open cut and is tied to
\* none; the other was charged after w1 and w2 had each opened a cut and is
\* tied to the cut of w1.
RegisterTagsOpenCutCase ==
    /\ out.op = "approve_expense"
    /\ out.result = "ok"
    /\ \E n \in 1..Len(cash_movements) :
            /\ cash_movements[n].concept = "operational_expense"
            /\ cash_movements[n].cashCutId = None
    /\ \E n \in 1..Len(cash_movements), c \in 1..Len(cash_cuts) :
            /\ cash_movements[n].concept = "operational_expense"
            /\ cash_movements[n].cashCutId = Some(c)
            /\ cash_cuts[c].warehouseId = "w1"
            /\ \E d \in 1..Len(cash_cuts) : cash_cuts[d].warehouseId = "w2" /\ cash_cuts[d].status = "open"

\* The outbound cash movements that reference expense e.
ChargesOf(e) ==
    {n \in 1..Len(cash_movements) :
        /\ cash_movements[n].movementType = "outbound"
        /\ cash_movements[n].referenceId = Some(ExpenseRef(e))}

\* C30: every step that changes an expense's stored status starts from
\* pending, and no expense ever has more than one outbound cash movement
\* referencing it, whatever the interleaving of the approve and reject requests.
ExpenseChargedOnce ==
    [][\A e \in 1..Len(expenses) :
            /\ expenses'[e].status # expenses[e].status => expenses[e].status = "pending"
            /\ Cardinality(ChargesOf(e)') <= 1]_vars

\* ---------------------------------------------------------------- properties: dispatch desk
\* Transfers t and u ask the same source for the same quantity of one product,
\* and the source held less than twice that quantity when they were approved.
Competing(t, u) ==
    /\ t # u
    /\ Len(transfers[t].details) = 1
    /\ transfers[u].details = transfers[t].details
    /\ transfers[u].source_warehouse_id = transfers[t].source_warehouse_id
    /\ snap[t][SourcePair(t, 1)] >= transfers[t].details[1].requested_quantity
    /\ snap[t][SourcePair(t, 1)] < 2 * transfers[t].details[1].requested_quantity

\* C24: of two approved transfers that compete for the same stock at most one
\* is ever dispatched, whatever the interleaving of the dispatch requests.
OneDispatchPerStock ==
    \A t, u \in 1..Len(transfers) :
        Competing(t, u) => ~(/\ transfers[t].details[1].sent_quantity # None
                             /\ transfers[u].details[1].sent_quantity # None
                             /\ transfers[t].status = "in_transit"
                             /\ transfers[u].status = "in_transit")

\* C25: a dispatch_transfer request that ends with an error has debited no
\* line: it fails on the transfer's first line or not at all.
DispatchAllOrNothing ==
    [][\A p \in Procs :
            (/\ req[p].op = "dispatch_transfer"
             /\ ~Busy(p)'
             /\ out'.op = "dispatch_transfer"
             /\ out'.result # "ok")
            => req[p].i = 1]_vars

\* ---------------------------------------------------------------- properties: reception
\* C26: every line of every completed transfer has transit_quantity = 0 and a
\* received_quantity, and was credited to the destination exactly once,
\* whatever received_details the receive_transfer request carried.
CompletedNothingInTransit ==
    \A t \in 1..Len(transfers) :
        transfers[t].status = "completed" =>
            \A i \in 1..Len(transfers[t].details) :
                /\ transfers[t].details[i].transit_quantity = 0
                /\ transfers[t].details[i].received_quantity # None
                /\ ReceivedOnce(t, i)

\* ---------------------------------------------------------------- properties: transit fields
RECURSIVE InTransit(_, _)
\* The sum of the transit quantities of the lines of one product.
InTransit(details, product_id) ==
    IF details = << >> THEN 0
    ELSE (IF Head(details).product_id = product_id THEN Head(details).transit_quantity ELSE 0)
         + InTransit(Tail(details), product_id)

\* C27: in every reachable state every balance document has
\* outbound_transit_quantity = 0 and inbound_transit_quantity = 0, so its
\* total_quantity is available + reserved; and when dispatch_transfer has
\* answered ok for an undisturbed transfer, the source's total_quantity is
\* down by the product's quantity in transit and the destination's is what it
\* was: the goods in transit are in no balance.
TransitFieldsStayZero ==
    /\ \A k \in Pairs :
            inventory[k] # None =>
                /\ inventory[k][1].outbound_transit_quantity = 0
                /\ inventory[k][1].inbound_transit_quantity = 0
                /\ total_quantity(inventory[k][1])
                        = inventory[k][1].available_quantity + inventory[k][1].reserved_quantity
    /\ \A t \in 1..Len(transfers) :
            JustDispatched(t) =>
                \A i \in 1..Len(transfers[t].details) :
                    /\ inventory[SourcePair(t, i)] # None
                    /\ total_quantity(inventory[SourcePair(t, i)][1])
                            = snap[t][SourcePair(t, i)]
                                - InTransit(transfers[t].details, transfers[t].details[i].product_id)
                    /\ inventory[DestinationPair(t, i)] # None =>
                            total_quantity(inventory[DestinationPair(t, i)][1])
                                = snap[t][DestinationPair(t, i)]

\* A transfer has just been dispatched with 2 units in transit, and the
\* source balance it left counts none of them.
TransitFieldsStayZeroCase ==
    \E t \in 1..Len(transfers) :
        /\ JustDispatched(t)
        /\ transfers[t].details[1].transit_quantity = 2
        /\ total_quantity(inventory[SourcePair(t, 1)][1]) = 0

\* ---------------------------------------------------------------- properties: lazy records
\* The pairs that have a balance document.
Stocked == {k \in Pairs : inventory[k] # None}

\* C28: the step in which an update_stock call ends with InsufficientStock or
\* InvalidMovementType leaves the set of balance documents as it was.
FailedCallCreatesNoRecord ==
    [][\A p \in Procs :
            (/\ InCall(p, "update_stock", "get") \/ InCall(p, "update_stock", "create")
             /\ ~Busy(p)'
             /\ out'.result \in {"InsufficientStock", "InvalidMovementType"})
            => Stocked' = Stocked]_vars

\* ---------------------------------------------------------------- properties: cancellation
RECURSIVE CreditedBack(_, _, _)
\* The sum of the quantities of the cancelled_sale movements in log that
\* reference sale s and credit product_id.
CreditedBack(log, s, product_id) ==
    IF log = << >> THEN 0
    ELSE (IF /\ Head(log).reference_type = Some("cancelled_sale")
             /\ Head(log).reference_id = Some(SaleRef(s))
             /\ Head(log).product_id = product_id
          THEN Head(log).quantity ELSE 0)
         + CreditedBack(Tail(log), s, product_id)

\* C29: a cancel_sale request on a sale stored as cancelled is refused and
\* changes no balance and no movement, and for every sale and product the
\* quantity credited back by cancel_sale never exceeds the quantity the sale's
\* lines carry, whatever the interleaving of the cancel_sale requests.
RestoredAtMostOnce ==
    [][/\ \A s \in 1..Len(sales) :
            (/\ sales[s].status = "cancelled"
             /\ AnsweredAtOnce
             /\ out'.op = "cancel_sale"
             /\ out'.id = s)
            => /\ out'.result = "InvalidState"
               /\ UNCHANGED <<inventory, movements>>
       /\ \A s \in 1..Len(sales'), x \in Products :
            CreditedBack(movements', s, x) <= SoldQuantity(sales'[s].details, x)]_vars

====
